---- MODULE Spec2Model ----
(***************************************************************************)
(* compass-service: the reconciliation logic of ComponentService,          *)
(* MetricService and ScorecardService over the remote Compass catalog.     *)
(*                                                                         *)
(* Four specifications share  the variables below:                         *)
(*   SpecDiff       the criteria diff computed by updateScorecard          *)
(*   SpecChangeLog  generateChangeLog of ComponentService/ScorecardService *)
(*   Spec           the service operations over the remote catalog, one    *)
(*                  operation at a time (no overlapping operations)        *)
(*   SpecRace       create operations that overlap at their awaits         *)
(***************************************************************************)
EXTENDS Integers, Sequences, FiniteSets, TLC

VARIABLES
    \* ---- SpecDiff: inputs and result of the criteria diff
    dfE,        \* existingScorecard.criterias (CriteriaResponseDto[])
    dfD,        \* scorecardSpec.criteria (CriteriaDto[], each a hasMetricValue)
    dfOut,      \* <<>> before the diff ran, <<variables.scorecardDetails>> after
    \* ---- SpecChangeLog: inputs and result of generateChangeLog
    clKind,     \* "component" | "scorecard"
    clA,        \* original
    clB,        \* updated
    clOut,      \* <<>> before the call, <<changes>> after
    \* ---- Spec: remote catalog, service fields, last completed operation
    session,    \* which independent service group this behaviour exercises
    comps,      \* remote components
    edges,      \* remote DEPENDS_ON relationships, <<sourceId, targetId>>
    metrics,    \* remote metric definitions
    scorecards, \* remote scorecards
    nextId,     \* per kind, how many ids the remote has assigned
    metricsCache,        \* ScorecardService.metricsCache
    scorecardListCache,  \* ScorecardService.scorecardListCache
    last,       \* the last completed operation: request, outcome, remote calls
    hist,       \* history: ids deleted by a successful delete, per kind,
                \* and the number of operations executed
    \* ---- SpecRace: overlapping create operations
    inflight    \* per caller, the create it is executing and where it stands

vars == <<dfE, dfD, dfOut, clKind, clA, clB, clOut, session, comps, edges,
          metrics, scorecards, nextId, metricsCache, scorecardListCache,
          last, hist, inflight>>

diffVars == <<dfE, dfD, dfOut>>
logVars  == <<clKind, clA, clB, clOut>>
opVars   == <<session, comps, edges, metrics, scorecards, nextId,
              metricsCache, scorecardListCache, last, hist, inflight>>

----------------------------------------------------------------------------
(* Bounds *)
MaxCriteria == 2     \* longest criteria list in a diff input
MaxIds      == 2     \* ids the remote assigns per kind in one behaviour
MaxOps      == 3     \* operations executed in one behaviour

(* JavaScript values *)
Undef == "undefined"
Null  == "null"

\* an optional value: <<>> is undefined, <<v>> is v
None    == <<>>
Some(v) == <<v>>
Field(r, f) == IF f \in DOMAIN r THEN Some(r[f]) ELSE None

Range(s) == {s[i] : i \in DOMAIN s}

RECURSIVE SeqFilterIdx(_, _, _)
\* Array.prototype.filter, keeping the positions in keep
SeqFilterIdx(s, keep, i) ==
    IF i > Len(s) THEN <<>>
    ELSE (IF i \in keep THEN <<s[i]>> ELSE <<>>) \o SeqFilterIdx(s, keep, i + 1)

----------------------------------------------------------------------------
(* new Map(entries): keys in first-insertion order, last value wins *)

MapHas(m, k) == \E i \in DOMAIN m : m[i][1] = k

MapGet(m, k) ==
    IF MapHas(m, k)
    THEN Some(m[CHOOSE i \in DOMAIN m : m[i][1] = k][2])
    ELSE None

MapSet(m, k, v) ==
    IF MapHas(m, k)
    THEN [i \in DOMAIN m |-> IF m[i][1] = k THEN <<k, v>> ELSE m[i]]
    ELSE Append(m, <<k, v>>)

RECURSIVE NewMap(_, _)
NewMap(entries, i) ==
    IF i = 0 THEN <<>>
    ELSE MapSet(NewMap(entries, i - 1), entries[i][1], entries[i][2])

----------------------------------------------------------------------------
(* ScorecardService.updateScorecard: the criteria diff *)

existingCriteriaMap(criterias) ==
    NewMap([i \in DOMAIN criterias |-> <<criterias[i].name, criterias[i]>>],
           Len(criterias))

newCriteriaMap(criteria) ==
    NewMap([i \in DOMAIN criteria |->
               <<criteria[i].hasMetricValue.name, criteria[i]>>],
           Len(criteria))

CreateEntry(criterion) ==
    [hasMetricValue |->
        [weight             |-> ToString(criterion.hasMetricValue.weight),
         name               |-> criterion.hasMetricValue.name,
         metricDefinitionId |-> criterion.hasMetricValue.metricDefinitionId,
         comparatorValue    |-> ToString(criterion.hasMetricValue.comparatorValue),
         comparator         |-> criterion.hasMetricValue.comparator]]

UpdateEntry(existingCriterion) ==
    [hasMetricValue |->
        [id                 |-> existingCriterion.id,
         weight             |-> ToString(existingCriterion.weight),
         name               |-> existingCriterion.name,
         metricDefinitionId |-> existingCriterion.metricDefinitionId]]

RECURSIVE CreateCriteria(_, _, _)
\* the createCriteria pushes of the loop over newCriteriaMap.entries()
CreateCriteria(newMap, exMap, i) ==
    IF i > Len(newMap) THEN <<>>
    ELSE (IF MapGet(exMap, newMap[i][1]) = None
          THEN <<CreateEntry(newMap[i][2])>> ELSE <<>>)
         \o CreateCriteria(newMap, exMap, i + 1)

RECURSIVE UpdateCriteria(_, _, _)
\* the updateCriteria pushes of the loop over newCriteriaMap.entries()
UpdateCriteria(newMap, exMap, i) ==
    IF i > Len(newMap) THEN <<>>
    ELSE (IF MapGet(exMap, newMap[i][1]) = None
          THEN <<>>
          ELSE <<UpdateEntry(MapGet(exMap, newMap[i][1])[1])>>)
         \o UpdateCriteria(newMap, exMap, i + 1)

RECURSIVE DeleteCriteriaIds_MapSwapped(_, _, _)
DeleteCriteriaIds_MapSwapped(criterias, newMap, i) ==
    IF i > Len(criterias) THEN <<>>
    ELSE (IF ~MapHas(existingCriteriaMap(criterias), criterias[i].name)
          THEN <<[id |-> criterias[i].metricDefinitionId]>> ELSE <<>>)
         \o DeleteCriteriaIds_MapSwapped(criterias, newMap, i + 1)

RECURSIVE DeleteCriteriaIds(_, _, _)
\* the loop over existingScorecard.criterias
DeleteCriteriaIds(criterias, newMap, i) ==
    IF i > Len(criterias) THEN <<>>
    ELSE (IF ~MapHas(newMap, criterias[i].name)
          THEN <<[id |-> criterias[i].metricDefinitionId]>> ELSE <<>>)
         \o DeleteCriteriaIds(criterias, newMap, i + 1)

CriteriaDiff(criterias, criteria) ==
    LET exMap  == existingCriteriaMap(criterias)
        newMap == newCriteriaMap(criteria)
    IN  [createCriteria |-> CreateCriteria(newMap, exMap, 1),
         updateCriteria |-> UpdateCriteria(newMap, exMap, 1),
         deleteCriteria |-> DeleteCriteriaIds(criterias, newMap, 1)]

----------------------------------------------------------------------------
(* SpecDiff: updateScorecard's diff over bounded criteria lists *)

MetricNames == {"m1", "m2", "m3"}
Weights     == {1, 2}

\* the id of the metric definition named n (MetricResponseDto.id)
MetricIdOf(n) == "id-" \o n

SeqsUpTo(S, n) == UNION {[1..k -> S] : k \in 0..n}

\* CriteriaResponseDto as mapToScorecardResponseDto builds it
DiffExisting ==
    {[i \in DOMAIN s |->
        [id |-> "k" \o ToString(i), name |-> s[i][1],
         metricDefinitionId |-> MetricIdOf(s[i][1]), weight |-> s[i][2]]] :
     s \in SeqsUpTo(MetricNames \X Weights, MaxCriteria)}

\* CriteriaDto of the request
DiffDesired ==
    {[i \in DOMAIN s |->
        [hasMetricValue |->
            [name |-> s[i][1], weight |-> s[i][2],
             metricDefinitionId |-> MetricIdOf(s[i][1]),
             comparator |-> "GREATER_THAN", comparatorValue |-> 1]]] :
     s \in SeqsUpTo(MetricNames \X Weights, MaxCriteria)}

IdleOps ==
    /\ session = "idle"
    /\ comps = {} /\ edges = {} /\ metrics = {} /\ scorecards = {}
    /\ nextId = [k \in {"component", "metric", "scorecard"} |-> 0]
    /\ metricsCache = None /\ scorecardListCache = None
    /\ last = [op |-> "none"]
    /\ hist = [deleted |-> [k \in {"component", "metric", "scorecard"} |-> {}],
               ops |-> 0]
    /\ inflight = <<>>

IdleDiff == dfE = <<>> /\ dfD = <<>> /\ dfOut = <<>>

IdleLog == clKind = "none" /\ clA = <<>> /\ clB = <<>> /\ clOut = <<>>

InitDiff ==
    /\ dfE \in DiffExisting
    /\ dfD \in DiffDesired
    /\ dfOut = <<>>
    /\ IdleLog
    /\ IdleOps

ComputeDiff ==
    /\ dfOut = <<>>
    /\ dfOut' = <<CriteriaDiff(dfE, dfD)>>
    /\ UNCHANGED <<dfE, dfD>>
    /\ UNCHANGED logVars
    /\ UNCHANGED opVars

NextDiff == ComputeDiff

SpecDiff == InitDiff /\ [][NextDiff]_vars

KeysE == {dfE[i].name : i \in DOMAIN dfE}
KeysD == {dfD[i].hasMetricValue.name : i \in DOMAIN dfD}
NamesOf(entries) == {entries[i].hasMetricValue.name : i \in DOMAIN entries}

\* C1: createCriteria holds one entry per name of keys(D) - keys(E),
\* updateCriteria one entry per name of keys(E) /\ keys(D), deleteCriteria one
\* entry per existing criterion whose name is in keys(E) - keys(D); replacing
\* the only existing criterion by a new one gives one delete, one create and no
\* update.
C1_DiffPartition ==
    dfOut # <<>> =>
        LET out == dfOut[1]
            del == {i \in DOMAIN dfE : dfE[i].name \in KeysE \ KeysD}
        IN  /\ NamesOf(out.createCriteria) = KeysD \ KeysE
            /\ Len(out.createCriteria) = Cardinality(KeysD \ KeysE)
            /\ NamesOf(out.updateCriteria) = KeysE \cap KeysD
            /\ Len(out.updateCriteria) = Cardinality(KeysE \cap KeysD)
            /\ Len(out.deleteCriteria) = Cardinality(del)
            /\ {out.deleteCriteria[j].id : j \in DOMAIN out.deleteCriteria}
                 = {dfE[i].metricDefinitionId : i \in del}
            /\ (Len(dfE) = 1 /\ Len(dfD) = 1 /\ KeysE # KeysD) =>
                  /\ Len(out.deleteCriteria) = 1
                  /\ Len(out.createCriteria) = 1
                  /\ Len(out.updateCriteria) = 0

\* a diff with a create, an update and a delete at once
C1_Witness ==
    /\ dfOut # <<>>
    /\ dfOut[1].createCriteria # <<>>
    /\ dfOut[1].updateCriteria # <<>>
    /\ dfOut[1].deleteCriteria # <<>>

----------------------------------------------------------------------------
(* JavaScript helpers used by the DTO mappers and the change logs *)

\* a || b on strings: '' and undefined are falsy
OrStr(a, b) == IF a \in {Undef, ""} THEN b ELSE a

\* a || b on optional arrays: every array is truthy
OrOpt(a, b) == IF a = None THEN b ELSE a

\* JSON.stringify of an optional array: undefined stays undefined, an array
\* becomes its text, which differs whenever the elements or their order differ
JSONstringify(opt) == IF opt = None THEN None ELSE <<"json", opt[1]>>

\* a value held by a change record, with its JavaScript type
\* (<<type, value>>: values of different types compare unequal)
JsStr(s) == <<IF s = Undef THEN "undefined" ELSE "string", s>>
JsArr(opt) == IF opt = None THEN <<"undefined", Undef>>
              ELSE <<"array", opt[1]>>

\* String.prototype.toLowerCase on the component type names of the catalog
ToLowerCase(s) ==
    CASE s = "Service" -> "service"
      [] s = "Library" -> "library"
      [] OTHER -> s

\* `${list?.length || 0} criteria`
CountText(opt) == ToString(IF opt = None THEN 0 ELSE Len(opt[1])) \o " criteria"

\* parseFloat(w) || 1.0 on an optional weight
ParseFloatOr1(opt) == IF opt = None \/ opt[1] = 0 THEN 1 ELSE opt[1]

----------------------------------------------------------------------------
(* ComponentService.mapComponentToResponseDto *)

DependsOnOf(component) ==
    LET nodes == component.relationships.nodes
        keep  == {i \in DOMAIN nodes :
                    nodes[i].type = "DEPENDS_ON" /\ nodes[i].sourceId = component.id}
        kept  == SeqFilterIdx(nodes, keep, 1)
    IN  [i \in DOMAIN kept |-> kept[i].targetId]

CustomField(component, key) ==
    LET cf == component.customFields
    IN  IF \E i \in DOMAIN cf : cf[i].key = key
        THEN OrStr(cf[CHOOSE i \in DOMAIN cf :
                        /\ cf[i].key = key
                        /\ \A j \in 1..(i - 1) : cf[j].key # key].value, "")
        ELSE ""

mapComponentToResponseDto(component) ==
    LET dependsOn     == IF "relationships" \in DOMAIN component
                         THEN DependsOnOf(component) ELSE <<>>
        tribe         == CustomField(component, "tribe")
        squad         == CustomField(component, "squad")
        componentType == ToLowerCase(component.type.name)
        links         == [i \in DOMAIN component.links |->
                            [name |-> component.links[i].name,
                             type |-> component.links[i].type,
                             url  |-> component.links[i].url]]
        labels        == component.labels
    IN  [id            |-> component.id,
         name          |-> component.name,
         componentType |-> componentType,
         typeId        |-> OrStr(component.type.id, ""),
         description   |-> OrStr(component.description, ""),
         dependsOn     |-> dependsOn,
         tribe         |-> tribe,
         squad         |-> squad,
         links         |-> links,
         labels        |-> labels,
         spec          |-> [name          |-> component.name,
                            componentType |-> componentType,
                            typeId        |-> OrStr(component.type.id, ""),
                            description   |-> OrStr(component.description, ""),
                            tribe         |-> tribe,
                            squad         |-> squad,
                            links         |-> links,
                            labels        |-> labels,
                            dependsOn     |-> dependsOn]]

----------------------------------------------------------------------------
(* ComponentService.generateChangeLog *)

Change(field, old, new) == [field |-> field, oldValue |-> old, newValue |-> new]

StrChange(field, old, new) ==
    IF old # new THEN <<Change(field, JsStr(old), JsStr(new))>> ELSE <<>>

ArrChange(field, old, new) ==
    IF JSONstringify(old) # JSONstringify(new)
    THEN <<Change(field, JsArr(old), JsArr(new))>> ELSE <<>>

ComponentGenerateChangeLog_NewAsOld(original, updated) ==
       StrChange("spec.name", original.name, updated.name)
    \o StrChange("spec.description", original.description, updated.description)
    \o StrChange("spec.componentType", original.componentType, updated.componentType)
    \o StrChange("spec.typeId", original.typeId, updated.typeId)
    \o StrChange("spec.tribe", original.tribe, updated.tribe)
    \o StrChange("spec.squad", updated.squad, original.squad)
    \o ArrChange("spec.dependsOn", Field(original, "dependsOn"), Field(updated, "dependsOn"))
    \o ArrChange("spec.links", Field(original, "links"), Field(updated, "links"))
    \o ArrChange("spec.labels", Field(original, "labels"), Field(updated, "labels"))

ComponentGenerateChangeLog(original, updated) ==
       StrChange("spec.name", original.name, updated.name)
    \o StrChange("spec.description", original.description, updated.description)
    \o StrChange("spec.componentType", original.componentType, updated.componentType)
    \o StrChange("spec.typeId", original.typeId, updated.typeId)
    \o StrChange("spec.tribe", original.tribe, updated.tribe)
    \o StrChange("spec.squad", original.squad, updated.squad)
    \o ArrChange("spec.dependsOn", Field(original, "dependsOn"), Field(updated, "dependsOn"))
    \o ArrChange("spec.links", Field(original, "links"), Field(updated, "links"))
    \o ArrChange("spec.labels", Field(original, "labels"), Field(updated, "labels"))

----------------------------------------------------------------------------
(* ScorecardService.mapToScorecardResponseDto *)

\* metrics.find(m => m.id === crit.metricDefinitionId || m.name === crit.name)
FindMetricFor(metricsList, crit) ==
    LET hit == {i \in DOMAIN metricsList :
                  \/ (/\ "metricDefinitionId" \in DOMAIN crit
                      /\ metricsList[i].id = crit.metricDefinitionId)
                  \/ metricsList[i].name = crit.name}
    IN  IF hit = {} THEN None
        ELSE Some(metricsList[CHOOSE i \in hit : \A j \in hit : i <= j])

\* spec.criteria?.find(c => c.name === crit.name ||
\*                          c.hasMetricValue?.name === crit.name)?.hasMetricValue
FindSpecCriterion(spec, crit) ==
    IF "criteria" \notin DOMAIN spec THEN None
    ELSE LET cs  == spec.criteria
             hit == {i \in DOMAIN cs : cs[i].hasMetricValue.name = crit.name}
         IN  IF hit = {} THEN None
             ELSE Some(cs[CHOOSE i \in hit : \A j \in hit : i <= j].hasMetricValue)

MapCriterion(crit, metricsList, spec) ==
    LET metric == FindMetricFor(metricsList, crit)
        sc     == FindSpecCriterion(spec, crit)
    IN  [id                 |-> crit.id,
         metricDefinitionId |->
             IF metric # None THEN metric[1].id
             ELSE IF "metricDefinitionId" \in DOMAIN crit
                  THEN OrStr(crit.metricDefinitionId, "") ELSE "",
         name               |-> IF metric # None THEN OrStr(metric[1].name, crit.name)
                                ELSE crit.name,
         weight             |-> ParseFloatOr1(Field(crit, "weight")),
         comparator         |-> IF sc = None THEN Undef ELSE sc[1].comparator,
         comparatorValue    |-> IF sc = None THEN None
                                ELSE Some(sc[1].comparatorValue)]

\* data.f || spec.f for a string field either object may lack
ScalarOr(data, spec, f) ==
    OrStr(IF f \in DOMAIN data THEN data[f] ELSE Undef,
          IF f \in DOMAIN spec THEN spec[f] ELSE Undef)

mapToScorecardResponseDto(scorecardData, metricsList, specFromInput) ==
    LET spec == IF specFromInput = None THEN scorecardData ELSE specFromInput[1]
        crits == IF "criterias" \in DOMAIN scorecardData
                 THEN scorecardData.criterias ELSE <<>>
        mappedCriterias == [i \in DOMAIN crits |->
                               MapCriterion(crits[i], metricsList, spec)]
        name        == ScalarOr(scorecardData, spec, "name")
        description == OrStr(ScalarOr(scorecardData, spec, "description"), "")
        ctids       == OrOpt(Field(scorecardData, "componentTypeIds"),
                             OrOpt(Field(spec, "componentTypeIds"), Some(<<>>)))[1]
        state       == ScalarOr(scorecardData, spec, "state")
        importance  == ScalarOr(scorecardData, spec, "importance")
        strategy    == ScalarOr(scorecardData, spec, "scoringStrategyType")
        specOwner   == IF "ownerId" \in DOMAIN spec THEN spec.ownerId ELSE Undef
    IN  [id                  |-> scorecardData.id,
         name                |-> name,
         description         |-> description,
         componentTypeIds    |-> ctids,
         owner               |-> IF "owner" \in DOMAIN scorecardData
                                 THEN scorecardData.owner ELSE [name |-> specOwner],
         criterias           |-> mappedCriterias,
         state               |-> state,
         type                |-> OrStr(IF "type" \in DOMAIN scorecardData
                                       THEN scorecardData.type ELSE Undef, ""),
         verified            |-> IF "verified" \in DOMAIN scorecardData
                                 THEN scorecardData.verified ELSE TRUE,
         importance          |-> importance,
         scoringStrategyType |-> strategy,
         spec |-> [name             |-> name,
                   description      |-> description,
                   componentTypeIds |-> ctids,
                   ownerId          |->
                       OrStr(IF "owner" \in DOMAIN scorecardData
                                /\ "id" \in DOMAIN scorecardData.owner
                             THEN scorecardData.owner.id ELSE Undef, specOwner),
                   criteria         |->
                       [i \in DOMAIN mappedCriterias |->
                           [hasMetricValue |->
                               [metricDefinitionId |-> mappedCriterias[i].metricDefinitionId,
                                name               |-> mappedCriterias[i].name,
                                weight             |-> mappedCriterias[i].weight,
                                comparator         |-> mappedCriterias[i].comparator,
                                comparatorValue    |-> mappedCriterias[i].comparatorValue]]],
                   state               |-> state,
                   importance          |-> importance,
                   scoringStrategyType |-> strategy]]

----------------------------------------------------------------------------
(* ScorecardService.generateChangeLog *)

\* if (o.f !== u.f && u.f !== undefined)
DefinedChange(field, old, new) ==
    IF old # new /\ new # Undef
    THEN <<Change(field, JsStr(old), JsStr(new))>> ELSE <<>>

StrField(r, f) == IF f \in DOMAIN r THEN r[f] ELSE Undef

ScorecardGenerateChangeLog(original, updated) ==
    LET updatedSpec  == IF "spec" \in DOMAIN updated THEN updated.spec ELSE updated
        originalSpec == IF "spec" \in DOMAIN original THEN original.spec ELSE original
        oldCrit      == Field(originalSpec, "criterias")
        newCrit      == OrOpt(Field(updatedSpec, "criteria"),
                              Field(updatedSpec, "criterias"))
    IN     StrChange("spec.name", StrField(originalSpec, "name"),
                     StrField(updatedSpec, "name"))
        \o StrChange("spec.description", StrField(originalSpec, "description"),
                     StrField(updatedSpec, "description"))
        \o ArrChange("spec.componentTypeIds",
                     Field(originalSpec, "componentTypeIds"),
                     Field(updatedSpec, "componentTypeIds"))
        \o (IF JSONstringify(oldCrit) # JSONstringify(newCrit)
            THEN <<Change("spec.criteria", JsStr(CountText(oldCrit)),
                          JsStr(CountText(newCrit)))>>
            ELSE <<>>)
        \o DefinedChange("spec.ownerId", StrField(originalSpec, "ownerId"),
                         StrField(updatedSpec, "ownerId"))
        \o DefinedChange("spec.state", StrField(originalSpec, "state"),
                         StrField(updatedSpec, "state"))
        \o DefinedChange("spec.importance", StrField(originalSpec, "importance"),
                         StrField(updatedSpec, "importance"))
        \o DefinedChange("spec.scoringStrategyType",
                         StrField(originalSpec, "scoringStrategyType"),
                         StrField(updatedSpec, "scoringStrategyType"))

----------------------------------------------------------------------------
(* SpecChangeLog: generateChangeLog over the response DTOs the services build *)

LinkRepo == [name |-> "Repository", type |-> "REPOSITORY", url |-> "https://r"]

\* components as the catalog returns them to getComponent / getAllComponents
LogRawComponents ==
    {[id |-> "c1", name |-> n, type |-> ty, description |-> d,
      links |-> li, labels |-> la, relationships |-> [nodes |-> rel],
      customFields |-> <<[key |-> "tribe", value |-> tr],
                         [key |-> "squad", value |-> sq]>>] :
     n \in {"a", "b"},
     ty \in {[id |-> "SERVICE", name |-> "Service"],
             [id |-> "LIBRARY", name |-> "Library"]},
     d \in {Undef, "d"}, tr \in {"", "t"}, sq \in {"", "s"},
     li \in {<<>>, <<LinkRepo>>},
     la \in {<<"l1", "l2">>, <<"l2", "l1">>},
     rel \in {<<>>, <<[sourceId |-> "c1", targetId |-> "c2",
                       type |-> "DEPENDS_ON"]>>}}

LogComponentDtos == {mapComponentToResponseDto(c) : c \in LogRawComponents}

LogMetrics == <<[id |-> MetricIdOf("m1"), name |-> "m1"],
                [id |-> MetricIdOf("m2"), name |-> "m2"]>>

\* criterias of a scorecard node after getAllScorecards attached the metric ids
LogGqlCriterias ==
    {<<>>,
     <<[id |-> "k1", weight |-> 2, name |-> "m1",
        metricDefinitionId |-> MetricIdOf("m1")]>>,
     <<[id |-> "k1", weight |-> 2, name |-> "m1",
        metricDefinitionId |-> MetricIdOf("m1")],
       [id |-> "k2", weight |-> 1, name |-> "m2",
        metricDefinitionId |-> MetricIdOf("m2")]>>}

\* scorecard DTOs of getAllScorecards
LogListedScorecardDtos ==
    {mapToScorecardResponseDto(
        [id |-> "s1", name |-> n, state |-> st, type |-> "CUSTOM",
         verified |-> FALSE, description |-> d, criterias |-> cr,
         componentTypeIds |-> ct, owner |-> [name |-> "team"]],
        LogMetrics, None) :
     n \in {"a", "b"}, st \in {"PUBLISHED", "DRAFT"}, d \in {Undef, "d"},
     cr \in LogGqlCriterias,
     ct \in {<<"SERVICE">>, <<"SERVICE", "LIBRARY">>}}

LogSpecCriteria ==
    {<<[hasMetricValue |-> [name |-> "m1", weight |-> 2,
          metricDefinitionId |-> MetricIdOf("m1"),
          comparator |-> "GREATER_THAN", comparatorValue |-> 1]]>>,
     <<[hasMetricValue |-> [name |-> "m1", weight |-> 2,
          metricDefinitionId |-> MetricIdOf("m1"),
          comparator |-> "GREATER_THAN", comparatorValue |-> 1]],
       [hasMetricValue |-> [name |-> "m2", weight |-> 1,
          metricDefinitionId |-> MetricIdOf("m2"),
          comparator |-> "GREATER_THAN", comparatorValue |-> 1]]>>}

\* scorecard DTOs createScorecard returns: the create response plus the request
LogCreatedScorecardDtos ==
    {mapToScorecardResponseDto(
        [id |-> "s1",
         criterias |-> [i \in DOMAIN cr |->
                           [id |-> "k" \o ToString(i),
                            name |-> cr[i].hasMetricValue.name]]],
        LogMetrics,
        Some([name |-> n, description |-> d, componentTypeIds |-> ct,
              criteria |-> cr, state |-> st, importance |-> "REQUIRED",
              ownerId |-> "o1", scoringStrategyType |-> "WEIGHT_BASED"])) :
     n \in {"a", "b"}, st \in {"PUBLISHED", "DRAFT"}, d \in {Undef, "d"},
     cr \in LogSpecCriteria,
     ct \in {<<"SERVICE">>, <<"SERVICE", "LIBRARY">>}}

LogScorecardDtos == LogListedScorecardDtos \cup LogCreatedScorecardDtos

InitChangeLog ==
    /\ clKind \in {"component", "scorecard"}
    /\ clA \in IF clKind = "component" THEN LogComponentDtos ELSE LogScorecardDtos
    /\ clB \in IF clKind = "component" THEN LogComponentDtos ELSE LogScorecardDtos
    /\ clOut = <<>>
    /\ IdleDiff
    /\ IdleOps

GenerateChangeLogComponent ==
    /\ clKind = "component"
    /\ clOut = <<>>
    /\ clOut' = <<ComponentGenerateChangeLog(clA, clB)>>
    /\ UNCHANGED <<clKind, clA, clB>>
    /\ UNCHANGED diffVars
    /\ UNCHANGED opVars

GenerateChangeLogScorecard ==
    /\ clKind = "scorecard"
    /\ clOut = <<>>
    /\ clOut' = <<ScorecardGenerateChangeLog(clA, clB)>>
    /\ UNCHANGED <<clKind, clA, clB>>
    /\ UNCHANGED diffVars
    /\ UNCHANGED opVars

NextChangeLog == GenerateChangeLogComponent \/ GenerateChangeLogScorecard

SpecChangeLog == InitChangeLog /\ [][NextChangeLog]_vars

TrackedComponent == {"name", "description", "componentType", "typeId", "tribe",
                     "squad", "dependsOn", "links", "labels"}
TrackedScorecard == {"name", "description", "componentTypeIds", "criteria",
                     "ownerId", "state", "importance", "scoringStrategyType"}
ArrayFields == {"dependsOn", "links", "labels", "componentTypeIds", "criteria"}
Tracked(kind) == IF kind = "component" THEN TrackedComponent ELSE TrackedScorecard

\* the value a DTO holds at spec.<f>
SpecValue(dto, f) ==
    IF f \in ArrayFields THEN JsArr(Field(dto.spec, f))
    ELSE JsStr(StrField(dto.spec, f))

FieldOfPath(kind, path) == CHOOSE f \in Tracked(kind) : "spec." \o f = path

RECURSIVE ApplyInverse(_, _, _, _)
\* writes each record's oldValue at its field path, in log order
ApplyInverse(kind, values, changes, i) ==
    IF i > Len(changes) THEN values
    ELSE ApplyInverse(kind,
             [values EXCEPT ![FieldOfPath(kind, changes[i].field)] =
                                changes[i].oldValue],
             changes, i + 1)

Restored(f) ==
    ApplyInverse(clKind, [g \in Tracked(clKind) |-> SpecValue(clB, g)],
                 clOut[1], 1)[f] = SpecValue(clA, f)

HasChange(path) == \E i \in DOMAIN clOut[1] : clOut[1][i].field = path

\* C3: generateChangeLog(X, X) is the empty list, for components and for
\* scorecards alike.
C3_SameResourceEmptyLog ==
    (clOut # <<>> /\ clA = clB) => Len(clOut[1]) = 0

\* C4 as stated: writing every oldValue back into B restores every tracked
\* field of A, for components and for scorecards.
C4_InverseRestoresAll ==
    clOut # <<>> => \A f \in Tracked(clKind) : Restored(f)

\* C4 amended: the inverse restores every tracked field of a component; of a
\* scorecard it restores name, description and componentTypeIds, and each of
\* ownerId, state, importance and scoringStrategyType for which B holds a
\* defined value (criteria are logged as counts only and are not restored).
C4_InverseRestoresLogged ==
    clOut # <<>> =>
        /\ clKind = "component" => \A f \in TrackedComponent : Restored(f)
        /\ clKind = "scorecard" =>
              /\ \A f \in {"name", "description", "componentTypeIds"} : Restored(f)
              /\ \A f \in {"ownerId", "state", "importance", "scoringStrategyType"} :
                    SpecValue(clB, f)[1] # "undefined" => Restored(f)

\* a component log with a scalar and a collection record to write back
C4_Witness ==
    /\ clOut # <<>>
    /\ clKind = "component"
    /\ HasChange("spec.squad")
    /\ HasChange("spec.dependsOn")
    /\ HasChange("spec.name")

----------------------------------------------------------------------------
(* The remote catalog and the requests of Spec

   ComponentService shares no field with MetricService and ScorecardService,
   so a behaviour of Spec exercises one of the two groups (session).

   The catalog, as the services' queries and mutations use it:
     - it assigns a fresh id to every created resource and accepts a name
       that is already in use (uniqueness is the services' business);
     - it requires a name to create a component or a scorecard, and the unit
       that the updateMetricDefinition mutation declares as String!;
     - relationships of a component lists the DEPENDS_ON edges in which the
       component is the source or the target; an edge exists at most once;
       deleting a component deletes its edges;
     - a deleteCriteria id that names no criterion of the scorecard is either
       ignored or makes the catalog reject the mutation;
     - the delete of a metric that a scorecard uses is either performed or
       refused with an "in use" error.
   GraphQLService rethrows the error of a failing call; an operation meets at
   most one failing call, and a mutation that failed changed nothing. *)

Kinds == {"component", "metric", "scorecard"}
Names == {"a", "b"}

\* the id the catalog assigns to the n-th resource of a kind; ids and names
\* are different strings
IdOf(kind, n) ==
    (CASE kind = "component" -> "c" [] kind = "metric" -> "m" [] OTHER -> "s")
        \o ToString(n)

\* first: 200 / first: 100 / first: 100 of the three collection queries
ComponentsFirst == 200
MetricsFirst    == 100
ScorecardsFirst == 100

Min(a, b) == IF a < b THEN a ELSE b

\* the nodes of a collection query: the stored resources in id order, cut at
\* the requested page size
Listed(kind, stored, n) ==
    LET slot == [k \in 1..n |-> {r \in stored : r.id = IdOf(kind, k)}]
        held == SelectSeq([k \in 1..n |-> k], LAMBDA k : slot[k] # {})
    IN  [i \in DOMAIN held |-> CHOOSE r \in slot[held[i]] : TRUE]

\* the highest id number a collection can hold: the catalog numbers its
\* resources from 1, and at most MaxIds ids are assigned unless the collection
\* starts with more resources
IdBound(stored) == IF Cardinality(stored) > MaxIds THEN Cardinality(stored) ELSE MaxIds

FirstN(s, n) == SubSeq(s, 1, Min(n, Len(s)))

\* relationships { nodes } of a component: the DEPENDS_ON edges it takes part
\* in, as source or as target, in id order
RECURSIVE RelNodes(_, _, _)
RelNodes(id, E, k) ==
    IF k = 0 THEN <<>>
    ELSE LET src == IdOf("component", ((k - 1) \div MaxIds) + 1)
             tgt == IdOf("component", ((k - 1) % MaxIds) + 1)
         IN  RelNodes(id, E, k - 1)
             \o (IF <<src, tgt>> \in E /\ (src = id \/ tgt = id)
                 THEN <<[sourceId |-> src, targetId |-> tgt, type |-> "DEPENDS_ON"]>>
                 ELSE <<>>)

TypeName(typeId) ==
    CASE typeId = "SERVICE" -> "Service"
      [] typeId = "LIBRARY" -> "Library"
      [] OTHER -> typeId

\* a component as the catalog returns it to the queries of ComponentService
GqlComponent(c, E) ==
    [id |-> c.id, name |-> c.name,
     type |-> [id |-> c.typeId, name |-> TypeName(c.typeId)],
     description |-> c.description,
     links |-> <<>>, labels |-> <<>>,
     relationships |-> [nodes |-> RelNodes(c.id, E, MaxIds * MaxIds)],
     customFields |-> <<[key |-> "tribe", value |-> ""],
                        [key |-> "squad", value |-> ""],
                        [key |-> "componentType", value |-> ""]>>]

validTypeIds == {"SERVICE", "LIBRARY", "WEBSITE", "APPLICATION", "TEMPLATE", "RUNTIME"}

\* the record of the last completed operation
\*   mutations    the mutations the operation submitted, in order
\*   remoteFailed some remote call of the operation failed
\*   primaryOk    the create/update/delete mutation of the resource succeeded
\*   depFailed    a remote call of the dependency step failed
\*   conflictId   the existing id a name Conflict carries
\*   dependents   the dependents <<id, name>> a delete Conflict lists
\*   pre          facts of the remote state when the operation started
\*   validation   updateScorecard's metric-existence validation: "none" when
\*                it did not run to a verdict, else "passed" or "rejected"
\*   refs         the metric names the request's criteria reference
\*   fields       the fields a validation BadRequest names
\*   changes      the change log an update returns
\*   lookupFailed the collection fetch of a create's name lookup fails
\*   variables    the optional variables updateMetric built from its payload
\*   returned     the metric DTO updateMetric returns
\* and in pre, violated: the fields of the request that break a field check
\* of the operation, on the catalog as the operation found it
NoPre == [existed |-> FALSE, nameTaken |-> FALSE, hasDependents |-> FALSE,
          inbound |-> {}, targets |-> {}, violated |-> {}, current |-> {},
          cached |-> FALSE]

Done(op, kind, name, id, outcome) ==
    [op |-> op, kind |-> kind, name |-> name, id |-> id, outcome |-> outcome,
     conflictId |-> Undef, dependents |-> {}, mutations |-> <<>>,
     remoteFailed |-> FALSE, primaryOk |-> FALSE, depFailed |-> FALSE,
     dependsOn |-> None, validation |-> "none", refs |-> {}, fields |-> {},
     changes |-> None, lookupFailed |-> FALSE, errorMsg |-> None, sent |-> {},
     listRead |-> "none", relCalls |-> 0, changed |-> FALSE, quiet |-> FALSE,
     variables |-> {}, returned |-> None,
     pre |-> NoPre]

NoOp == Done("none", "none", Undef, Undef, "none")

----------------------------------------------------------------------------
(* ComponentService reads *)

\* getAllComponents, when the query succeeds
AllComponents(C, E) ==
    LET nodes == FirstN(Listed("component", C, IdBound(C)), ComponentsFirst)
    IN  [i \in DOMAIN nodes |-> mapComponentToResponseDto(GqlComponent(nodes[i], E))]

\* allComponents.find((c) => c.name === name)
FindByName(list, name) ==
    LET hit == {i \in DOMAIN list : list[i].name = name}
    IN  IF hit = {} THEN None
        ELSE Some(list[CHOOSE i \in hit : \A j \in hit : i <= j])

\* list.find((x) => x.id === id)
FindById(list, id) ==
    LET hit == {i \in DOMAIN list : list[i].id = id}
    IN  IF hit = {} THEN None
        ELSE Some(list[CHOOSE i \in hit : \A j \in hit : i <= j])

byNameLookup_FailureIsNotFound(list, name, fetchFailed) ==
    IF fetchFailed \/ FindByName(list, name) = None THEN "NotFound" ELSE "found"

\* getComponentByName / getMetricByName: the collection fetch threw, or the
\* fetched list holds no match, or it holds one
byNameLookup(list, name, fetchFailed) ==
    IF fetchFailed THEN "failed"
    ELSE IF FindByName(list, name) = None THEN "NotFound" ELSE "found"

\* getComponent, when the query succeeds: the DTO, or None for NotFound
ComponentById(C, E, id) ==
    IF \E c \in C : c.id = id
    THEN Some(mapComponentToResponseDto(GqlComponent(CHOOSE c \in C : c.id = id, E)))
    ELSE None

\* new Map(allComponents.map((c) => [c.name, c.id]))
componentMap(all) == NewMap([i \in DOMAIN all |-> <<all[i].name, all[i].id>>], Len(all))

\* array.includes(x)
Includes(s, x) == \E i \in DOMAIN s : s[i] = x

\* array.filter((x) => !other.includes(x))
Without(s, other) ==
    SeqFilterIdx(s, {i \in DOMAIN s : ~Includes(other, s[i])}, 1)

----------------------------------------------------------------------------
(* createDependencyRelationships / updateDependencyRelationships: the remote
   calls of the dependency step in order, then their effect on the catalog up
   to the first call that fails *)

\* the createRelationship calls for the names the map resolves
RECURSIVE CreateCalls(_, _, _)
CreateCalls(names, cmap, i) ==
    IF i > Len(names) THEN <<>>
    ELSE (IF MapGet(cmap, names[i]) # None
          THEN <<[call |-> "createRelationship", target |-> MapGet(cmap, names[i])[1]]>>
          ELSE <<>>)
         \o CreateCalls(names, cmap, i + 1)

\* the findRelationship query, and the deleteRelationship if it found a node
RECURSIVE RemoveCalls(_, _, _, _, _)
RemoveCalls(names, cmap, src, E, i) ==
    IF i > Len(names) THEN <<>>
    ELSE (IF MapGet(cmap, names[i]) # None
          THEN <<[call |-> "findRelationship", target |-> MapGet(cmap, names[i])[1]]>>
               \o (IF <<src, MapGet(cmap, names[i])[1]>> \in E
                   THEN <<[call |-> "deleteRelationship",
                           target |-> MapGet(cmap, names[i])[1]]>>
                   ELSE <<>>)
          ELSE <<>>)
         \o RemoveCalls(names, cmap, src, E, i + 1)

createDependencyRelationshipsCalls(C, E, componentId, dependencies) ==
    <<[call |-> "getAllComponents", target |-> Undef]>>
    \o CreateCalls(dependencies, componentMap(AllComponents(C, E)), 1)

updateDependencyRelationshipsCalls(C, E, componentId, newDependencies) ==
    LET currentDependencies == ComponentById(C, E, componentId)[1].dependsOn
        cmap == componentMap(AllComponents(C, E))
    IN  <<[call |-> "getComponent", target |-> Undef],
          [call |-> "getAllComponents", target |-> Undef]>>
        \o RemoveCalls(Without(currentDependencies, newDependencies), cmap,
                       componentId, E, 1)
        \o CreateCalls(Without(newDependencies, currentDependencies), cmap, 1)

\* the calls that ran: all of them, or those up to and including the failing one
Ran(calls, failAt) ==
    IF failAt \in DOMAIN calls THEN SubSeq(calls, 1, failAt) ELSE calls

\* the calls that took effect: those before the failing one
Effective(calls, failAt) ==
    IF failAt \in DOMAIN calls THEN SubSeq(calls, 1, failAt - 1) ELSE calls

\* the catalog's edges after the effective relationship mutations
RECURSIVE ApplyRelCalls(_, _, _, _)
ApplyRelCalls(E, src, calls, i) ==
    IF i > Len(calls) THEN E
    ELSE ApplyRelCalls(
             CASE calls[i].call = "createRelationship" -> E \cup {<<src, calls[i].target>>}
               [] calls[i].call = "deleteRelationship" -> E \ {<<src, calls[i].target>>}
               [] OTHER -> E,
             src, calls, i + 1)

MutationsOf(calls) ==
    LET keep == {i \in DOMAIN calls :
                    calls[i].call \in {"createRelationship", "deleteRelationship"}}
        kept == SeqFilterIdx(calls, keep, 1)
    IN  [i \in DOMAIN kept |-> kept[i].call]

----------------------------------------------------------------------------
(* ComponentService operations.  Each returns the catalog after the operation
   and the record of the operation; failAt is the position, among the remote
   calls the operation makes, of the one call that fails (0: none fails). *)

\* the catch of createDependencyRelationships / updateDependencyRelationships
\* logs the error and does not throw
DependencyStepOutcome_Rethrow(failed) == IF failed THEN "BadRequest" ELSE "ok"

DependencyStepOutcome(failed) == "ok"

DepLists == {<<>>, <<"a">>, <<"b">>, <<"a", "b">>}

CompResult(C, E, created, l) == [comps |-> C, edges |-> E, created |-> created, last |-> l]

\* a present (truthy) optional string
Given(v) == v \notin {Undef, ""}

\* the dependsOn check: some name is the name of no component
DependsOnViolations(C, dependsOn) ==
    IF \E i \in DOMAIN dependsOn : \A c \in C : c.name # dependsOn[i]
    THEN {"spec.dependsOn"} ELSE {}

\* the field checks of createComponent that the request breaks
ComponentViolations(C, componentName, typeId, dependsOn) ==
    (IF ~Given(componentName) THEN {"spec.name"} ELSE {})
    \cup (IF typeId \notin validTypeIds THEN {"spec.typeId"} ELSE {})
    \cup DependsOnViolations(C, dependsOn)

createComponent(C, E, newId, specName, metaName, typeId, dependsOn, failAt) ==
    LET componentName == OrStr(specName, metaName)
        base == [Done("create", "component", componentName, Undef, "BadRequest")
                 EXCEPT !.dependsOn = Some(dependsOn),
                        !.lookupFailed = /\ failAt = 1
                                         /\ Given(componentName)
                                         /\ typeId \in validTypeIds,
                        !.pre = [NoPre EXCEPT
                                    !.nameTaken = \E c \in C : c.name = componentName,
                                    !.violated = ComponentViolations(C, componentName,
                                                                     typeId, dependsOn)]]
        all     == AllComponents(C, E)
        hasDeps == Len(dependsOn) > 0
        nVal    == IF hasDeps THEN 1 ELSE 0
        mutAt   == 2 + nVal
    IN  IF componentName \in {Undef, ""}
        THEN CompResult(C, E, FALSE, [base EXCEPT !.fields = {"spec.name"}])
        ELSE IF typeId \notin validTypeIds
        THEN CompResult(C, E, FALSE, [base EXCEPT !.fields = {"spec.typeId"}])
        \* getComponentByName: getAllComponents, then find
        ELSE IF byNameLookup(all, componentName, failAt = 1) = "failed"
        THEN CompResult(C, E, FALSE, [base EXCEPT !.remoteFailed = TRUE])
        ELSE IF byNameLookup(all, componentName, failAt = 1) = "found"
        THEN CompResult(C, E, FALSE,
                 [base EXCEPT !.outcome = "Conflict",
                              !.conflictId = FindByName(all, componentName)[1].id])
        \* dependency validation
        ELSE IF hasDeps /\ failAt = 2
        THEN CompResult(C, E, FALSE, [base EXCEPT !.remoteFailed = TRUE])
        ELSE IF hasDeps /\ \E i \in DOMAIN dependsOn :
                              ~Includes([j \in DOMAIN all |-> all[j].name], dependsOn[i])
        THEN CompResult(C, E, FALSE, [base EXCEPT !.fields = {"spec.dependsOn"}])
        \* the createComponent mutation; the catalog requires a name
        ELSE IF failAt = mutAt \/ specName = Undef
        THEN CompResult(C, E, FALSE,
                 [base EXCEPT !.remoteFailed = TRUE,
                              !.mutations = <<"createComponent">>])
        ELSE LET C2    == C \cup {[id |-> newId, name |-> specName,
                                   typeId |-> typeId, description |-> ""]}
                 calls == IF hasDeps
                          THEN createDependencyRelationshipsCalls(C2, E, newId, dependsOn)
                          ELSE <<>>
                 depAt == failAt - mutAt
                 failed == depAt \in DOMAIN calls
                 E2    == ApplyRelCalls(E, newId, Effective(calls, depAt), 1)
             IN  CompResult(C2, E2, TRUE,
                     [base EXCEPT !.id = newId,
                                  !.outcome = DependencyStepOutcome(failed),
                                  !.primaryOk = TRUE,
                                  !.remoteFailed = failed,
                                  !.depFailed = failed,
                                  !.mutations = <<"createComponent">>
                                                \o MutationsOf(Ran(calls, depAt))])

\* the component after the updateComponent mutation applied componentInput
\* the scalar fields of variables.componentInput, as <<field, value>> pairs
componentInput(name, description, typeId) ==
    (IF name \notin {Undef, ""} THEN {<<"name", name>>} ELSE {})
    \cup (IF description # Undef THEN {<<"description", description>>} ELSE {})
    \cup (IF typeId \notin {Undef, ""} THEN {<<"typeId", typeId>>} ELSE {})

\* the scalar fields of a stored resource, as <<field, value>> pairs
ScalarsOf(stored, id, fields) ==
    {<<f, r[f]>> : f \in fields, r \in {x \in stored : x.id = id}}

UpdatedComponent(c, name, description, typeId) ==
    [c EXCEPT !.name = IF name \in {Undef, ""} THEN @ ELSE name,
              !.description = IF description = Undef THEN @ ELSE description,
              !.typeId = IF typeId \in {Undef, ""} THEN @ ELSE typeId]

dependencyStepCalls_Always(C, E, id, dependsOn) ==
    updateDependencyRelationshipsCalls(C, E, id,
        IF dependsOn = None THEN <<>> ELSE dependsOn[1])

\* if (componentSpec.dependsOn !== undefined) await updateDependencyRelationships
dependencyStepCalls(C, E, id, dependsOn) ==
    IF dependsOn # None
    THEN updateDependencyRelationshipsCalls(C, E, id, dependsOn[1])
    ELSE <<>>

updateComponent(C, E, id, name, description, typeId, dependsOn, failAt) ==
    LET base == [Done("update", "component", name, id, "BadRequest")
                 EXCEPT !.dependsOn = dependsOn,
                        !.pre = [NoPre EXCEPT
                                    !.existed = \E c \in C : c.id = id,
                                    !.targets = {e[2] : e \in {d \in E : d[1] = id}},
                                    !.current = ScalarsOf(C, id,
                                        {"name", "description", "typeId"}),
                                    !.violated =
                                        (IF Given(typeId) /\ typeId \notin validTypeIds
                                         THEN {"spec.typeId"} ELSE {})
                                        \cup DependsOnViolations(C,
                                                 IF dependsOn = None THEN <<>>
                                                 ELSE dependsOn[1])]]
        all     == AllComponents(C, E)
        hasDeps == dependsOn # None /\ Len(dependsOn[1]) > 0
        nVal    == IF hasDeps THEN 1 ELSE 0
        mutAt   == 2 + nVal
    IN  \* getComponent
        IF failAt = 1
        THEN CompResult(C, E, FALSE, [base EXCEPT !.remoteFailed = TRUE])
        ELSE IF ComponentById(C, E, id) = None
        THEN CompResult(C, E, FALSE, [base EXCEPT !.outcome = "NotFound"])
        ELSE IF typeId \notin {Undef, ""} /\ typeId \notin validTypeIds
        THEN CompResult(C, E, FALSE, base)
        \* dependency validation
        ELSE IF hasDeps /\ failAt = 2
        THEN CompResult(C, E, FALSE, [base EXCEPT !.remoteFailed = TRUE])
        ELSE IF hasDeps /\ \E i \in DOMAIN dependsOn[1] :
                              ~Includes([j \in DOMAIN all |-> all[j].name], dependsOn[1][i])
        THEN CompResult(C, E, FALSE, base)
        \* the updateComponent mutation
        ELSE IF failAt = mutAt
        THEN CompResult(C, E, FALSE,
                 [base EXCEPT !.remoteFailed = TRUE,
                              !.sent = componentInput(name, description, typeId),
                              !.mutations = <<"updateComponent">>])
        ELSE LET old   == CHOOSE c \in C : c.id = id
                 C2    == (C \ {old}) \cup {UpdatedComponent(old, name, description, typeId)}
                 calls == dependencyStepCalls(C2, E, id, dependsOn)
                 depAt == failAt - mutAt
                 failed == depAt \in DOMAIN calls
                 E2    == ApplyRelCalls(E, id, Effective(calls, depAt), 1)
             IN  CompResult(C2, E2, FALSE,
                     [base EXCEPT !.outcome = DependencyStepOutcome(failed),
                                  !.primaryOk = TRUE,
                                  !.remoteFailed = failed,
                                  !.depFailed = failed,
                                  !.relCalls = Len(Ran(calls, depAt)),
                                  !.sent = componentInput(name, description, typeId),
                                  !.mutations = <<"updateComponent">>
                                                \o MutationsOf(Ran(calls, depAt)),
                                  \* the log compares the component read at the
                                  \* start with the component of the mutation
                                  \* result
                                  !.changes = Some(ComponentGenerateChangeLog(
                                      ComponentById(C, E, id)[1],
                                      mapComponentToResponseDto(GqlComponent(
                                          UpdatedComponent(old, name, description,
                                                           typeId), E))))])

\* checkDependencies, when its query succeeds: for every relationship node of
\* the component with type DEPENDS_ON and targetId === id, the id and name of
\* the node's target
checkDependencies(C, E, id) ==
    LET nodes == GqlComponent(CHOOSE c \in C : c.id = id, E).relationships.nodes
        keep  == {i \in DOMAIN nodes :
                    /\ nodes[i].type = "DEPENDS_ON"
                    /\ nodes[i].targetId = id
                    /\ \E t \in C : t.id = nodes[i].targetId}
        kept  == SeqFilterIdx(nodes, keep, 1)
    IN  [i \in DOMAIN kept |->
            LET target == CHOOSE t \in C : t.id = kept[i].targetId
            IN  [type |-> "component", id |-> target.id, name |-> target.name]]

\* errors?.[0]?.message of a delete mutation that reports success: false.  A
\* text is the set of the phrases that errorMsg.toLowerCase() includes.
Phrases == {"referenced by", "in use", "foreign key constraint", "still referenced"}
ErrorTexts == {{}} \cup {{ph} : ph \in Phrases}

\* errorMsg.toLowerCase().includes(phrase)
TextIncludes(errorMsg, phrase) == phrase \in errorMsg

\* the exception a delete throws when its mutation reports a failure
deleteComponentRejected(errorMsg) == "BadRequest"

deleteMetricRejected(errorMsg) ==
    IF TextIncludes(errorMsg, "referenced by") \/ TextIncludes(errorMsg, "in use")
    THEN "Conflict" ELSE "BadRequest"

deleteScorecardRejected(errorMsg) ==
    IF TextIncludes(errorMsg, "foreign key constraint")
          \/ TextIncludes(errorMsg, "still referenced")
    THEN "Conflict" ELSE "BadRequest"

\* what goes wrong in a delete: the remote call at position failAt throws, or
\* the mutation reports a failure with a text
DeleteFaults(calls) ==
    {<<f, None>> : f \in 0..calls} \cup {<<0, Some(t)>> : t \in ErrorTexts}

deleteComponent_DeleteFirst(C, E, id, failAt, reported) ==
    LET base == [Done("delete", "component", Undef, id, "BadRequest")
                 EXCEPT !.pre = [NoPre EXCEPT
                        !.existed = \E c \in C : c.id = id,
                        !.hasDependents = \E e \in E : e[2] = id,
                        !.inbound = {<<s.id, s.name>> : s \in
                                        {c \in C : c.id # id /\ <<c.id, id>> \in E}}]]
    IN  \* getComponent
        IF failAt = 1
        THEN CompResult(C, E, FALSE, [base EXCEPT !.remoteFailed = TRUE])
        ELSE IF ComponentById(C, E, id) = None
        THEN CompResult(C, E, FALSE, [base EXCEPT !.outcome = "NotFound"])
        ELSE LET dependencies == IF failAt = 2 THEN <<>> ELSE checkDependencies(C, E, id)
             IN  IF Len(dependencies) > 0
                 THEN CompResult({c \in C : c.id # id},
                                 {e \in E : e[1] # id /\ e[2] # id}, FALSE,
                          [base EXCEPT !.outcome = "Conflict",
                                       !.mutations = <<"deleteComponent">>,
                                       !.dependents =
                                           {<<dependencies[i].id, dependencies[i].name>> :
                                               i \in DOMAIN dependencies}])
                 \* the deleteComponent mutation; the failing call is the
                 \* dependents query (2) or the mutation (3)
                 ELSE IF failAt = 3
                 THEN CompResult(C, E, FALSE,
                          [base EXCEPT !.remoteFailed = TRUE,
                                       !.mutations = <<"deleteComponent">>])
                 ELSE IF reported # None
                 THEN CompResult(C, E, FALSE,
                          [base EXCEPT !.outcome = deleteComponentRejected(reported[1]),
                                       !.remoteFailed = TRUE,
                                       !.errorMsg = reported,
                                       !.mutations = <<"deleteComponent">>])
                 ELSE CompResult({c \in C : c.id # id},
                                 {e \in E : e[1] # id /\ e[2] # id}, FALSE,
                          [base EXCEPT !.outcome = "ok",
                                       !.primaryOk = TRUE,
                                       !.remoteFailed = (failAt = 2),
                                       !.depFailed = (failAt = 2),
                                       !.mutations = <<"deleteComponent">>])

deleteComponent(C, E, id, failAt, reported) ==
    LET base == [Done("delete", "component", Undef, id, "BadRequest")
                 EXCEPT !.pre = [NoPre EXCEPT
                        !.existed = \E c \in C : c.id = id,
                        !.hasDependents = \E e \in E : e[2] = id,
                        !.inbound = {<<s.id, s.name>> : s \in
                                        {c \in C : c.id # id /\ <<c.id, id>> \in E}}]]
    IN  \* getComponent
        IF failAt = 1
        THEN CompResult(C, E, FALSE, [base EXCEPT !.remoteFailed = TRUE])
        ELSE IF ComponentById(C, E, id) = None
        THEN CompResult(C, E, FALSE, [base EXCEPT !.outcome = "NotFound"])
        ELSE LET dependencies == IF failAt = 2 THEN <<>> ELSE checkDependencies(C, E, id)
             IN  IF Len(dependencies) > 0
                 THEN CompResult(C, E, FALSE,
                          [base EXCEPT !.outcome = "Conflict",
                                       !.dependents =
                                           {<<dependencies[i].id, dependencies[i].name>> :
                                               i \in DOMAIN dependencies}])
                 \* the deleteComponent mutation; the failing call is the
                 \* dependents query (2) or the mutation (3)
                 ELSE IF failAt = 3
                 THEN CompResult(C, E, FALSE,
                          [base EXCEPT !.remoteFailed = TRUE,
                                       !.mutations = <<"deleteComponent">>])
                 ELSE IF reported # None
                 THEN CompResult(C, E, FALSE,
                          [base EXCEPT !.outcome = deleteComponentRejected(reported[1]),
                                       !.remoteFailed = TRUE,
                                       !.errorMsg = reported,
                                       !.mutations = <<"deleteComponent">>])
                 ELSE CompResult({c \in C : c.id # id},
                                 {e \in E : e[1] # id /\ e[2] # id}, FALSE,
                          [base EXCEPT !.outcome = "ok",
                                       !.primaryOk = TRUE,
                                       !.remoteFailed = (failAt = 2),
                                       !.depFailed = (failAt = 2),
                                       !.mutations = <<"deleteComponent">>])

getComponent(C, E, id, failAt) ==
    LET base == [Done("get", "component", Undef, id, "BadRequest")
                 EXCEPT !.pre = [NoPre EXCEPT !.existed = \E c \in C : c.id = id]]
    IN  IF failAt = 1 THEN [base EXCEPT !.remoteFailed = TRUE]
        ELSE IF ComponentById(C, E, id) = None THEN [base EXCEPT !.outcome = "NotFound"]
        ELSE [base EXCEPT !.outcome = "ok"]

----------------------------------------------------------------------------
(* Spec: actions of the component session *)

\* the ids a request names: the ids the catalog has assigned so far, and one
\* id it has not assigned yet
ComponentIds == {IdOf("component", n) : n \in 1..Min(MaxIds, nextId["component"] + 1)}

catalogVars == <<metrics, scorecards, metricsCache, scorecardListCache>>

CreateRequest(specName, metaName, typeId, dependsOn) ==
    [specName |-> specName, metaName |-> metaName, typeId |-> typeId,
     dependsOn |-> dependsOn]

CreateRequests ==
    {CreateRequest(n, Undef, "SERVICE", d) : n \in Names, d \in DepLists}
    \cup {CreateRequest(Undef, "a", "SERVICE", <<>>),
          CreateRequest(Undef, Undef, "SERVICE", <<>>),
          CreateRequest("a", "b", "BOGUS", <<>>),
          CreateRequest("a", Undef, "BOGUS", <<"b">>)}

\* one more operation has been executed
Counted(h) == [h EXCEPT !.ops = @ + 1]

\* An operation can be called while fewer than MaxOps were executed.  An
\* operation that changed neither the catalog nor the caches (last.quiet) ends
\* its behaviour: every operation that can follow it can follow the state
\* before it, in a behaviour that is one operation shorter.
MayCall == hist.ops < MaxOps /\ ~last.quiet

CreateComponent ==
    /\ session = "component"
    /\ MayCall
    /\ \E q \in CreateRequests, failAt \in 0..(3 + MaxIds) :
          \E r \in {createComponent(comps, edges,
                                    IdOf("component", nextId["component"] + 1),
                                    q.specName, q.metaName, q.typeId,
                                    q.dependsOn, failAt)} :
              /\ r.created => nextId["component"] < MaxIds
              /\ comps' = r.comps
              /\ edges' = r.edges
              /\ nextId' = IF r.created
                           THEN [nextId EXCEPT !["component"] = @ + 1] ELSE nextId
              /\ last' = [r.last EXCEPT !.changed = r.comps # comps \/ r.edges # edges,
                                         !.quiet = r.comps = comps /\ r.edges = edges]
    /\ hist' = Counted(hist)
    /\ UNCHANGED session
    /\ UNCHANGED catalogVars
    /\ UNCHANGED <<diffVars, logVars, inflight>>

UpdateRequest(name, description, typeId, dependsOn) ==
    [name |-> name, description |-> description, typeId |-> typeId,
     dependsOn |-> dependsOn]

UpdateRequests ==
    {UpdateRequest(n, Undef, Undef, dp) :
        n \in {Undef, "b"}, dp \in {None} \cup {Some(d) : d \in DepLists}}
    \cup {UpdateRequest(Undef, "d", Undef, None),
          UpdateRequest(Undef, Undef, "SERVICE", None),
          UpdateRequest(Undef, Undef, "BOGUS", None)}

UpdateComponent ==
    /\ session = "component"
    /\ MayCall
    /\ \E id \in ComponentIds, q \in UpdateRequests :
       \E failAt \in 0..(4 + MaxIds) :
          \E r \in {updateComponent(comps, edges, id, q.name, q.description,
                                    q.typeId, q.dependsOn, failAt)} :
              /\ comps' = r.comps
              /\ edges' = r.edges
              /\ last' = [r.last EXCEPT !.changed = r.comps # comps \/ r.edges # edges,
                                         !.quiet = r.comps = comps /\ r.edges = edges]
    /\ hist' = Counted(hist)
    /\ UNCHANGED <<session, nextId>>
    /\ UNCHANGED catalogVars
    /\ UNCHANGED <<diffVars, logVars, inflight>>

DeleteComponent ==
    /\ session = "component"
    /\ MayCall
    /\ \E id \in ComponentIds, fault \in DeleteFaults(3) :
          \E r \in {deleteComponent(comps, edges, id, fault[1], fault[2])} :
              /\ comps' = r.comps
              /\ edges' = r.edges
              /\ last' = [r.last EXCEPT !.changed = r.comps # comps \/ r.edges # edges,
                                         !.quiet = r.comps = comps /\ r.edges = edges]
              /\ hist' = IF r.last.outcome = "ok"
                         THEN Counted([hist EXCEPT !.deleted["component"] = @ \cup {id}])
                         ELSE Counted(hist)
    /\ UNCHANGED <<session, nextId>>
    /\ UNCHANGED catalogVars
    /\ UNCHANGED <<diffVars, logVars, inflight>>

GetComponent ==
    /\ session = "component"
    /\ MayCall
    /\ \E id \in ComponentIds, failAt \in 0..1 :
          last' = [getComponent(comps, edges, id, failAt) EXCEPT !.quiet = TRUE]
    /\ hist' = Counted(hist)
    /\ UNCHANGED <<session, nextId, comps, edges>>
    /\ UNCHANGED catalogVars
    /\ UNCHANGED <<diffVars, logVars, inflight>>

----------------------------------------------------------------------------
(* MetricService and ScorecardService over the remote catalog.  A stored
   metric is [id, name]: the collection query asks for id, name, type and
   description only, so no read observes a stored unit.  A stored scorecard is
   [id, name, criterias], each criterion [id, name, weight]. *)

GqlMetric(m) == [id |-> m.id, name |-> m.name, type |-> "", description |-> ""]

mapToMetricResponseDto(metric) ==
    [id |-> metric.id,
     name |-> OrStr(metric.name, ""),
     spec |-> [name |-> OrStr(metric.name, ""),
               description |-> OrStr(metric.description, ""),
               format |-> [unit |-> ""]],
     unit |-> "",
     type |-> OrStr(metric.type, "")]

\* getAllMetrics, when the query succeeds
getAllMetrics(M) ==
    LET nodes == FirstN(Listed("metric", M, IdBound(M)), MetricsFirst)
    IN  [i \in DOMAIN nodes |-> mapToMetricResponseDto(GqlMetric(nodes[i]))]

\* a scorecard node of the searchScorecards query
GqlScorecard(s) ==
    [id |-> s.id, name |-> s.name, state |-> "PUBLISHED", type |-> "CUSTOM",
     verified |-> FALSE, description |-> "",
     criterias |-> s.criterias,
     componentTypeIds |-> <<"SERVICE">>, owner |-> [name |-> "team"]]

\* the loop of getAllScorecards that attaches metricDefinitionId by name
AttachMetricIds(node, metricsList) ==
    [node EXCEPT !.criterias =
        [i \in DOMAIN @ |->
            IF FindByName(metricsList, @[i].name) # None
            THEN [id |-> @[i].id, weight |-> @[i].weight, name |-> @[i].name,
                  metricDefinitionId |-> FindByName(metricsList, @[i].name)[1].id]
            ELSE @[i]]]

\* clearCaches
clearCaches_KeepList(mc, sc) == [mc |-> None, sc |-> sc]

clearCaches(mc, sc) == [mc |-> None, sc |-> None]

\* a read with the position k of the last remote call made before it; n is
\* the position of the last remote call made after it
ReadResult(ok, n, mc, sc, list) ==
    [ok |-> ok, n |-> n, mc |-> mc, sc |-> sc, list |-> list]

\* the cache and the result after getAllMetrics returned list
Fetched(k, sc, list) == ReadResult(TRUE, k, Some(list), sc, list)

\* ScorecardService.getMetrics
getMetrics(M, mc, sc, failAt, k) ==
    IF mc # None THEN ReadResult(TRUE, k, mc, sc, mc[1])
    ELSE IF failAt = k + 1 THEN ReadResult(FALSE, k + 1, mc, sc, <<>>)
    ELSE Fetched(k + 1, sc, getAllMetrics(M))

\* rawScorecards.map(sc => this.mapToScorecardResponseDto(sc, metricsList))
\* after the loop that attaches the metric ids
MappedScorecards(rawScorecards, metricsList) ==
    [i \in DOMAIN rawScorecards |->
        mapToScorecardResponseDto(
            AttachMetricIds(GqlScorecard(rawScorecards[i]), metricsList),
            metricsList, None)]

\* the cache and the result after the list was mapped
Cached(n, mc, dtos) == ReadResult(TRUE, n, mc, Some(dtos), dtos)

\* getAllScorecards after its query succeeded and getMetrics returned m
getAllScorecardsWith(S, sc, m) ==
    IF ~m.ok THEN ReadResult(FALSE, m.n, m.mc, sc, <<>>)
    ELSE Cached(m.n, m.mc,
                MappedScorecards(FirstN(Listed("scorecard", S, IdBound(S)), ScorecardsFirst),
                                 m.list))

getAllScorecards_NoCacheCheck(S, M, mc, sc, failAt, k) ==
    IF failAt = k + 1 THEN ReadResult(FALSE, k + 1, mc, sc, <<>>)
    ELSE getAllScorecardsWith(S, sc, getMetrics(M, mc, sc, failAt, k + 1))

\* ScorecardService.getAllScorecards
getAllScorecards(S, M, mc, sc, failAt, k) ==
    IF sc # None THEN ReadResult(TRUE, k, mc, sc, sc[1])
    ELSE IF failAt = k + 1 THEN ReadResult(FALSE, k + 1, mc, sc, <<>>)
    ELSE getAllScorecardsWith(S, sc, getMetrics(M, mc, sc, failAt, k + 1))

\* where the list of an operation's first getAllScorecards call came from:
\* a call that returns the cache makes no remote call
ListReadOf(r1) == IF r1.n > 0 THEN "remote" ELSE "cache"

CatResult(M, S, mc, sc, created, l) ==
    [metrics |-> M, scorecards |-> S, mc |-> mc, sc |-> sc,
     created |-> created, last |-> l]

validGradingSystems ==
    {"resiliency", "observability", "production-readiness", "security",
     "cost-optimization"}

\* cronRegex.test(s), tabulated on the schedules the requests use
CronSchedules == {"@daily", "0 * * * *", "bogus"}
cronRegexTest(s) == s \in {"@daily", "0 * * * *"}

\* the checks of createMetric on spec['grading-system'] and
\* spec.cronSchedule that the payload breaks
MetricSpecViolations(gradingSystem, cronSchedule) ==
    (IF Given(gradingSystem) /\ gradingSystem \notin validGradingSystems
     THEN {"spec.grading-system"} ELSE {})
    \cup (IF Given(cronSchedule) /\ ~cronRegexTest(cronSchedule)
          THEN {"spec.cronSchedule"} ELSE {})

\* the field checks of createMetric that the request breaks
MetricViolations(metricName, gradingSystem, cronSchedule) ==
    (IF ~Given(metricName) THEN {"metadata.name"} ELSE {})
    \cup MetricSpecViolations(gradingSystem, cronSchedule)

createMetric(M, S, mc, sc, newId, metricName, gradingSystem, cronSchedule, failAt) ==
    LET base == [Done("create", "metric", metricName, Undef, "BadRequest")
                 EXCEPT !.lookupFailed = (failAt = 1 /\ Given(metricName)),
                        !.pre = [NoPre EXCEPT
                                    !.nameTaken = \E m \in M : m.name = metricName,
                                    !.violated = MetricViolations(metricName,
                                                     gradingSystem, cronSchedule)]]
        all  == getAllMetrics(M)
    IN  IF metricName \in {Undef, ""}
        THEN CatResult(M, S, mc, sc, FALSE, [base EXCEPT !.fields = {"metadata.name"}])
        \* getMetricByName: getAllMetrics, then find
        ELSE IF byNameLookup(all, metricName, failAt = 1) = "failed"
        THEN CatResult(M, S, mc, sc, FALSE,
                 [base EXCEPT !.outcome = "Error", !.remoteFailed = TRUE])
        ELSE IF byNameLookup(all, metricName, failAt = 1) = "found"
        THEN CatResult(M, S, mc, sc, FALSE,
                 [base EXCEPT !.outcome = "Conflict",
                              !.conflictId = FindByName(all, metricName)[1].id])
        ELSE IF Given(gradingSystem) /\ gradingSystem \notin validGradingSystems
        THEN CatResult(M, S, mc, sc, FALSE,
                 [base EXCEPT !.fields = {"spec.grading-system"}])
        ELSE IF Given(cronSchedule) /\ ~cronRegexTest(cronSchedule)
        THEN CatResult(M, S, mc, sc, FALSE,
                 [base EXCEPT !.fields = {"spec.cronSchedule"}])
        ELSE IF failAt = 2
        THEN CatResult(M, S, mc, sc, FALSE,
                 [base EXCEPT !.remoteFailed = TRUE,
                              !.mutations = <<"createMetricDefinition">>])
        ELSE CatResult(M \cup {[id |-> newId, name |-> metricName]}, S, mc, sc, TRUE,
                 [base EXCEPT !.id = newId, !.outcome = "ok", !.primaryOk = TRUE,
                              !.mutations = <<"createMetricDefinition">>])

\* the mutation variables take metadata.name, spec.description and
\* spec.format.unit, each when truthy; no other field of the payload is read
metricVariables(name, description, unit) ==
    (IF Given(name) THEN {<<"name", name>>} ELSE {})
    \cup (IF Given(description) THEN {<<"description", description>>} ELSE {})
    \cup (IF Given(unit) THEN {<<"unit", unit>>} ELSE {})

\* the records pushed while the variables are assigned
metricChanges(existingMetric, name, description, unit) ==
    (IF Given(name) THEN StrChange("metadata.name", existingMetric.name, name)
     ELSE <<>>)
    \o (IF Given(description)
        THEN StrChange("spec.description", existingMetric.spec.description,
                       description)
        ELSE <<>>)
    \o (IF Given(unit) THEN StrChange("spec.format.unit", existingMetric.unit, unit)
        ELSE <<>>)

\* Object.keys(variables).length <= 2 && !variables.name &&
\* !variables.description && !variables.unit
nothingToUpdate_Never(variables) == FALSE

nothingToUpdate(variables) == variables = {}

\* the updatedMetricDefinition of the mutation reply carries the id only
updatedMetricDto(id) ==
    mapToMetricResponseDto([id |-> id, name |-> Undef, type |-> Undef,
                            description |-> Undef])

updateMetricFound(M, S, mc, sc, base, id, name, description, unit, failAt, existingMetric) ==
    \* nothing to update
    IF nothingToUpdate(base.variables)
    THEN CatResult(M, S, mc, sc, FALSE,
             [base EXCEPT !.outcome = "ok", !.changes = Some(<<>>),
                          !.returned = Some(existingMetric)])
    \* the mutation declares $unit: String!
    ELSE IF failAt = 2 \/ ~Given(unit)
    THEN CatResult(M, S, mc, sc, FALSE,
             [base EXCEPT !.remoteFailed = TRUE,
                          !.sent = base.variables,
                          !.mutations = <<"updateMetricDefinition">>])
    ELSE LET old == CHOOSE m \in M : m.id = id
         IN  CatResult((M \ {old}) \cup
                           {[old EXCEPT !.name = IF Given(name) THEN name ELSE @]},
                       S, mc, sc, FALSE,
                 [base EXCEPT !.outcome = "ok", !.primaryOk = TRUE,
                              !.sent = base.variables,
                              !.returned = Some(updatedMetricDto(id)),
                              !.changes = Some(metricChanges(existingMetric, name,
                                                             description, unit)),
                              !.mutations = <<"updateMetricDefinition">>])

updateMetric(M, S, mc, sc, id, name, description, unit, gradingSystem, cronSchedule, failAt) ==
    LET base == [Done("update", "metric", name, id, "BadRequest")
                 EXCEPT !.pre = [NoPre EXCEPT
                                    !.existed = \E m \in M : m.id = id,
                                    !.current = ScalarsOf(M, id, {"name"}),
                                    !.violated = MetricSpecViolations(gradingSystem,
                                                                      cronSchedule)],
                        !.variables = metricVariables(name, description, unit)]
    IN  \* getMetric
        IF failAt = 1
        THEN CatResult(M, S, mc, sc, FALSE,
                 [base EXCEPT !.outcome = "Error", !.remoteFailed = TRUE])
        ELSE IF FindById(getAllMetrics(M), id) = None
        THEN CatResult(M, S, mc, sc, FALSE, [base EXCEPT !.outcome = "NotFound"])
        ELSE updateMetricFound(M, S, mc, sc, base, id, name, description, unit, failAt,
                               FindById(getAllMetrics(M), id)[1])

\* some scorecard has a criterion on the metric
InUse(S, M, id) ==
    \E m \in M : m.id = id /\
        \E s \in S : \E i \in DOMAIN s.criterias : s.criterias[i].name = m.name

\* reported: the text with which the catalog answers the delete mutation when
\* it reports success: false, None when it reports no failure
deleteMetric(M, S, mc, sc, id, reported, failAt) ==
    LET base == [Done("delete", "metric", Undef, id, "BadRequest")
                 EXCEPT !.pre = [NoPre EXCEPT
                                    !.existed = \E m \in M : m.id = id,
                                    !.hasDependents = InUse(S, M, id)]]
    IN  \* getMetric
        IF failAt = 1
        THEN CatResult(M, S, mc, sc, FALSE,
                 [base EXCEPT !.outcome = "Error", !.remoteFailed = TRUE])
        ELSE IF FindById(getAllMetrics(M), id) = None
        THEN CatResult(M, S, mc, sc, FALSE, [base EXCEPT !.outcome = "NotFound"])
        ELSE IF failAt = 2
        THEN CatResult(M, S, mc, sc, FALSE,
                 [base EXCEPT !.remoteFailed = TRUE,
                              !.mutations = <<"deleteMetricDefinition">>])
        ELSE IF reported # None
        THEN CatResult(M, S, mc, sc, FALSE,
                 [base EXCEPT !.outcome = deleteMetricRejected(reported[1]),
                              !.remoteFailed = TRUE,
                              !.errorMsg = reported,
                              !.mutations = <<"deleteMetricDefinition">>])
        ELSE CatResult({m \in M : m.id # id}, S, mc, sc, FALSE,
                 [base EXCEPT !.outcome = "ok", !.primaryOk = TRUE,
                              !.mutations = <<"deleteMetricDefinition">>])

getMetric(M, id, failAt) ==
    LET base == [Done("get", "metric", Undef, id, "Error")
                 EXCEPT !.pre = [NoPre EXCEPT !.existed = \E m \in M : m.id = id]]
    IN  IF failAt = 1 THEN [base EXCEPT !.remoteFailed = TRUE]
        ELSE IF FindById(getAllMetrics(M), id) = None
        THEN [base EXCEPT !.outcome = "NotFound"]
        ELSE [base EXCEPT !.outcome = "ok"]

----------------------------------------------------------------------------
(* ScorecardService operations *)

\* a CriteriaDto of a request, on the metric named n
Crit(n) ==
    [hasMetricValue |->
        [name |-> n, weight |-> 1, metricDefinitionId |-> Undef,
         comparator |-> "GREATER_THAN", comparatorValue |-> 1]]

CritLists == {<<>>, <<Crit("a")>>, <<Crit("b")>>, <<Crit("a"), Crit("b")>>}

RefsOf(criteria) == {criteria[i].hasMetricValue.name : i \in DOMAIN criteria}

\* the metric reference of the criteria that names no metric of the catalog
CriteriaViolations(M, criteria) ==
    IF \E n \in RefsOf(criteria) : \A m \in M : m.name # n
    THEN {"spec.criteria.hasMetricValue.name"} ELSE {}

\* the criterion the catalog stores for a createCriteria / criterias entry
StoredCriterion(sid, entry) ==
    [id     |-> sid \o "-" \o entry.hasMetricValue.name,
     name   |-> entry.hasMetricValue.name,
     weight |-> CHOOSE w \in Weights : ToString(w) = entry.hasMetricValue.weight]

\* the stored criterias after the catalog applied the three lists of an
\* updateScorecard input
AppliedCriteria(sid, criterias, diff) ==
    LET doomed == {diff.deleteCriteria[i].id : i \in DOMAIN diff.deleteCriteria}
        keep   == {i \in DOMAIN criterias : criterias[i].id \notin doomed}
    IN  SeqFilterIdx(criterias, keep, 1)
        \o [i \in DOMAIN diff.createCriteria |->
               StoredCriterion(sid, diff.createCriteria[i])]

\* every id of deleteCriteria is the id of a stored criterion
KnownDeleteIds(criterias, diff) ==
    \A i \in DOMAIN diff.deleteCriteria :
        \E j \in DOMAIN criterias : criterias[j].id = diff.deleteCriteria[i].id

\* createScorecard after the mutation succeeded, clearCaches ran and
\* getMetrics returned m
createScorecardMapped(M, S2, base, newId, m) ==
    CatResult(M, S2, m.mc, m.sc, TRUE,
        [base EXCEPT !.id = newId,
                     !.outcome = IF m.ok THEN "ok" ELSE "BadRequest",
                     !.primaryOk = TRUE,
                     !.remoteFailed = ~m.ok,
                     !.mutations = <<"createScorecard">>])

\* createScorecard after getScorecardByName read the list r1
createScorecardWith(M, S, base, newId, scorecardName, specName, criteria, failAt, r1) ==
    IF ~r1.ok
    THEN CatResult(M, S, r1.mc, r1.sc, FALSE,
             [base EXCEPT !.outcome = "Error", !.remoteFailed = TRUE,
                          !.lookupFailed = TRUE])
    ELSE IF FindByName(r1.list, scorecardName) # None
    THEN CatResult(M, S, r1.mc, r1.sc, FALSE, [base EXCEPT !.outcome = "Conflict"])
    ELSE IF Len(criteria) = 0
    THEN CatResult(M, S, r1.mc, r1.sc, FALSE, base)
    \* the createScorecard mutation; the catalog requires a name
    ELSE IF failAt = r1.n + 1 \/ specName = Undef
    THEN CatResult(M, S, r1.mc, r1.sc, FALSE,
             [base EXCEPT !.remoteFailed = TRUE,
                          !.mutations = <<"createScorecard">>])
    ELSE createScorecardMapped(M,
             S \cup {[id |-> newId, name |-> specName,
                      criterias |-> [i \in DOMAIN criteria |->
                          StoredCriterion(newId, CreateEntry(criteria[i]))]]},
             base, newId,
             getMetrics(M, clearCaches(r1.mc, r1.sc).mc, clearCaches(r1.mc, r1.sc).sc,
                        failAt, r1.n + 1))

\* createScorecard with the list its first getAllScorecards call returned
createScorecardRead(M, S, base, newId, scorecardName, specName, criteria, failAt, r1) ==
    createScorecardWith(M, S, [base EXCEPT !.listRead = ListReadOf(r1)], newId, scorecardName, specName, criteria, failAt, r1)

createScorecard(M, S, mc, sc, newId, scorecardName, specName, criteria, failAt) ==
    IF scorecardName \in {Undef, ""}
    THEN CatResult(M, S, mc, sc, FALSE,
             Done("create", "scorecard", scorecardName, Undef, "BadRequest"))
    ELSE createScorecardRead(M, S,
             [Done("create", "scorecard", scorecardName, Undef, "BadRequest")
              EXCEPT !.refs = RefsOf(criteria),
                     !.pre = [NoPre EXCEPT
                                 !.cached = sc # None,
                                 !.nameTaken =
                                     specName # Undef /\ \E s \in S : s.name = specName,
                                 !.violated = CriteriaViolations(M, criteria)]],
             newId, scorecardName, specName, criteria, failAt,
             \* getScorecardByName
             getAllScorecards(S, M, mc, sc, failAt, 0))

\* updateScorecard after the mutation succeeded, clearCaches ran and the
\* re-fetch read the list r2
updateScorecardRefetched(M, S2, base, r2) ==
    CatResult(M, S2, r2.mc, r2.sc, FALSE,
        [base EXCEPT !.outcome = IF r2.ok THEN "ok" ELSE "BadRequest",
                     !.primaryOk = TRUE,
                     !.remoteFailed = ~r2.ok,
                     !.mutations = <<"updateScorecard">>])

\* the scorecards after the catalog applied the mutation
UpdatedScorecards(S, old, specName, diff) ==
    (S \ {old}) \cup
    {[old EXCEPT !.name = IF specName = Undef THEN @ ELSE specName,
                 !.criterias = AppliedCriteria(old.id, @, diff)]}

\* updateScorecard from the diff to the re-fetch; lenient: the catalog ignores
\* a deleteCriteria id it does not know, else it rejects the mutation
\* the scalar fields of variables.scorecardDetails that the serialised
\* request carries: a property whose value is undefined is left out
scorecardDetails(specName) == IF specName # Undef THEN {<<"name", specName>>} ELSE {}

updateScorecardDiffed(M, S, base, old, specName, lenient, failAt, m, diff) ==
    IF failAt = m.n + 1 \/ (~lenient /\ ~KnownDeleteIds(old.criterias, diff))
    THEN CatResult(M, S, m.mc, m.sc, FALSE,
             [base EXCEPT !.remoteFailed = TRUE,
                          !.mutations = <<"updateScorecard">>])
    ELSE updateScorecardRefetched(M, UpdatedScorecards(S, old, specName, diff), base,
             getAllScorecards(UpdatedScorecards(S, old, specName, diff), M,
                              clearCaches(m.mc, m.sc).mc, clearCaches(m.mc, m.sc).sc,
                              failAt, m.n + 1))

\* the verdict of the metric-existence validation over the metric names
Verdict(criteria, metricNames) ==
    IF Len(criteria) = 0 THEN "none"
    ELSE IF \A i \in DOMAIN criteria :
               Includes(metricNames, criteria[i].hasMetricValue.name)
    THEN "passed" ELSE "rejected"

\* updateScorecard after getMetrics returned m for the validation
updateScorecardValidated(M, S, base, id, specName, criteria, lenient, failAt, existingScorecard, m) ==
    IF ~m.ok
    THEN CatResult(M, S, m.mc, m.sc, FALSE, [base EXCEPT !.remoteFailed = TRUE])
    ELSE IF Verdict(criteria, [i \in DOMAIN m.list |-> m.list[i].name]) = "rejected"
    THEN CatResult(M, S, m.mc, m.sc, FALSE, [base EXCEPT !.validation = "rejected"])
    ELSE updateScorecardDiffed(M, S,
             [base EXCEPT !.validation =
                 Verdict(criteria, [i \in DOMAIN m.list |-> m.list[i].name]),
                          !.sent = scorecardDetails(specName)],
             CHOOSE s \in S : s.id = id, specName, lenient, failAt, m,
             CriteriaDiff(existingScorecard.criterias, criteria))

\* updateScorecard after getScorecard read the list r1
updateScorecardWith(M, S, base, id, scorecardName, specName, criteria, lenient, failAt, r1) ==
    IF ~r1.ok
    THEN CatResult(M, S, r1.mc, r1.sc, FALSE,
             [base EXCEPT !.outcome = "Error", !.remoteFailed = TRUE])
    ELSE IF FindById(r1.list, id) = None
    THEN CatResult(M, S, r1.mc, r1.sc, FALSE, [base EXCEPT !.outcome = "NotFound"])
    ELSE IF scorecardName \in {Undef, ""}
    THEN CatResult(M, S, r1.mc, r1.sc, FALSE, base)
    ELSE updateScorecardValidated(M, S, base, id, specName, criteria, lenient, failAt,
             FindById(r1.list, id)[1],
             IF Len(criteria) > 0
             THEN getMetrics(M, r1.mc, r1.sc, failAt, r1.n)
             ELSE ReadResult(TRUE, r1.n, r1.mc, r1.sc, <<>>))

\* updateScorecard with the list its first getAllScorecards call returned
updateScorecardRead(M, S, base, id, scorecardName, specName, criteria, lenient, failAt, r1) ==
    updateScorecardWith(M, S, [base EXCEPT !.listRead = ListReadOf(r1)], id, scorecardName, specName, criteria, lenient, failAt, r1)

updateScorecard(M, S, mc, sc, id, scorecardName, specName, criteria, lenient, failAt) ==
    updateScorecardRead(M, S,
        [Done("update", "scorecard", scorecardName, id, "BadRequest")
         EXCEPT !.refs = RefsOf(criteria),
                !.pre = [NoPre EXCEPT !.existed = \E s \in S : s.id = id,
                                      !.cached = sc # None,
                                      !.current = ScalarsOf(S, id, {"name"}),
                                      !.violated = CriteriaViolations(M, criteria)]],
        id, scorecardName, specName, criteria, lenient, failAt,
        \* getScorecard
        getAllScorecards(S, M, mc, sc, failAt, 0))

deleteScorecardWith_NoResolve(M, S, base, id, failAt, reported, r1) ==
    IF ~r1.ok
    THEN CatResult(M, S, r1.mc, r1.sc, FALSE,
             [base EXCEPT !.outcome = "Error", !.remoteFailed = TRUE])
    ELSE IF failAt = r1.n + 1
    THEN CatResult(M, S, r1.mc, r1.sc, FALSE,
             [base EXCEPT !.remoteFailed = TRUE,
                          !.mutations = <<"deleteScorecard">>])
    ELSE IF reported # None
    THEN CatResult(M, S, r1.mc, r1.sc, FALSE,
             [base EXCEPT !.outcome = deleteScorecardRejected(reported[1]),
                          !.remoteFailed = TRUE,
                          !.errorMsg = reported,
                          !.mutations = <<"deleteScorecard">>])
    ELSE CatResult(M, {s \in S : s.id # id},
                   clearCaches(r1.mc, r1.sc).mc, clearCaches(r1.mc, r1.sc).sc, FALSE,
             [base EXCEPT !.outcome = "ok", !.primaryOk = TRUE,
                          !.mutations = <<"deleteScorecard">>])

\* deleteScorecard after getScorecard read the list r1
deleteScorecardWith(M, S, base, id, failAt, reported, r1) ==
    IF ~r1.ok
    THEN CatResult(M, S, r1.mc, r1.sc, FALSE,
             [base EXCEPT !.outcome = "Error", !.remoteFailed = TRUE])
    ELSE IF FindById(r1.list, id) = None
    THEN CatResult(M, S, r1.mc, r1.sc, FALSE, [base EXCEPT !.outcome = "NotFound"])
    ELSE IF failAt = r1.n + 1
    THEN CatResult(M, S, r1.mc, r1.sc, FALSE,
             [base EXCEPT !.remoteFailed = TRUE,
                          !.mutations = <<"deleteScorecard">>])
    ELSE IF reported # None
    THEN CatResult(M, S, r1.mc, r1.sc, FALSE,
             [base EXCEPT !.outcome = deleteScorecardRejected(reported[1]),
                          !.remoteFailed = TRUE,
                          !.errorMsg = reported,
                          !.mutations = <<"deleteScorecard">>])
    ELSE CatResult(M, {s \in S : s.id # id},
                   clearCaches(r1.mc, r1.sc).mc, clearCaches(r1.mc, r1.sc).sc, FALSE,
             [base EXCEPT !.outcome = "ok", !.primaryOk = TRUE,
                          !.mutations = <<"deleteScorecard">>])

\* deleteScorecard with the list its first getAllScorecards call returned
deleteScorecardRead(M, S, base, id, failAt, reported, r1) ==
    deleteScorecardWith(M, S, [base EXCEPT !.listRead = ListReadOf(r1)], id, failAt, reported, r1)

deleteScorecard(M, S, mc, sc, id, failAt, reported) ==
    deleteScorecardRead(M, S,
        [Done("delete", "scorecard", Undef, id, "BadRequest")
         EXCEPT !.pre = [NoPre EXCEPT !.existed = \E s \in S : s.id = id,
                                      !.cached = sc # None]],
        id, failAt, reported,
        getAllScorecards(S, M, mc, sc, failAt, 0))

\* getScorecard after getAllScorecards read the list r1
getScorecardWith(M, S, base, id, r1) ==
    CatResult(M, S, r1.mc, r1.sc, FALSE,
        IF ~r1.ok THEN [base EXCEPT !.remoteFailed = TRUE]
        ELSE IF FindById(r1.list, id) = None THEN [base EXCEPT !.outcome = "NotFound"]
        ELSE [base EXCEPT !.outcome = "ok"])

\* getScorecard with the list its first getAllScorecards call returned
getScorecardRead(M, S, base, id, r1) ==
    getScorecardWith(M, S, [base EXCEPT !.listRead = ListReadOf(r1)], id, r1)

getScorecard(M, S, mc, sc, id, failAt) ==
    getScorecardRead(M, S,
        [Done("get", "scorecard", Undef, id, "Error")
         EXCEPT !.pre = [NoPre EXCEPT !.existed = \E s \in S : s.id = id,
                                      !.cached = sc # None]],
        id,
        getAllScorecards(S, M, mc, sc, failAt, 0))

----------------------------------------------------------------------------
(* Spec: actions of the catalog session (metrics and scorecards) *)

MetricIds    == {IdOf("metric", n) : n \in 1..Min(MaxIds, nextId["metric"] + 1)}
ScorecardIds == {IdOf("scorecard", n) : n \in 1..Min(MaxIds, nextId["scorecard"] + 1)}

\* the catalog after an operation of MetricService or ScorecardService
CatalogStep(r, kind) ==
    /\ r.created => nextId[kind] < MaxIds
    /\ metrics' = r.metrics
    /\ scorecards' = r.scorecards
    /\ metricsCache' = r.mc
    /\ scorecardListCache' = r.sc
    /\ nextId' = IF r.created THEN [nextId EXCEPT ![kind] = @ + 1] ELSE nextId
    /\ last' = [r.last EXCEPT
                   !.changed = r.metrics # metrics \/ r.scorecards # scorecards,
                   !.quiet = /\ r.metrics = metrics /\ r.scorecards = scorecards
                             /\ r.mc = metricsCache /\ r.sc = scorecardListCache]
    /\ hist' = IF r.last.op = "delete" /\ r.last.outcome = "ok"
               THEN Counted([hist EXCEPT !.deleted[kind] = @ \cup {r.last.id}])
               ELSE Counted(hist)
    /\ UNCHANGED <<session, comps, edges>>
    /\ UNCHANGED <<diffVars, logVars, inflight>>

\* spec['grading-system'] and spec.cronSchedule of a metric payload
MetricSpecs == {<<Undef, Undef>>, <<"security", "bogus">>, <<"bogus", "bogus">>}

CreateMetric ==
    /\ session = "catalog"
    /\ MayCall
    /\ \E metricName \in Names \cup {Undef}, ms \in MetricSpecs, failAt \in 0..2 :
          \E r \in {createMetric(metrics, scorecards, metricsCache, scorecardListCache,
                                 IdOf("metric", nextId["metric"] + 1),
                                 metricName, ms[1], ms[2], failAt)} :
              CatalogStep(r, "metric")

\* <<metadata.name, spec.description, spec.format.unit, spec.grading-system,
\*   spec.cronSchedule>>
MetricUpdateRequests ==
    {<<Undef, Undef, Undef, Undef, Undef>>, <<"b", Undef, "u", Undef, Undef>>,
     <<"b", Undef, Undef, Undef, Undef>>, <<Undef, "d", Undef, Undef, Undef>>,
     <<Undef, Undef, "u", "security", "bogus">>, <<"", Undef, "", "bogus", "bogus">>,
     <<"b", "d", "u", "bogus", "bogus">>}

UpdateMetric ==
    /\ session = "catalog"
    /\ MayCall
    /\ \E id \in MetricIds, q \in MetricUpdateRequests, failAt \in 0..2 :
          \E r \in {updateMetric(metrics, scorecards, metricsCache, scorecardListCache,
                                 id, q[1], q[2], q[3], q[4], q[5], failAt)} :
              CatalogStep(r, "metric")

DeleteMetric ==
    /\ session = "catalog"
    /\ MayCall
    /\ \E id \in MetricIds, fault \in DeleteFaults(2) :
          \E r \in {deleteMetric(metrics, scorecards, metricsCache, scorecardListCache,
                                 id, fault[2], fault[1])} :
              CatalogStep(r, "metric")

GetMetric ==
    /\ session = "catalog"
    /\ MayCall
    /\ \E id \in MetricIds, failAt \in 0..1 :
          last' = [getMetric(metrics, id, failAt) EXCEPT !.quiet = TRUE]
    /\ hist' = Counted(hist)
    /\ UNCHANGED <<session, nextId, comps, edges>>
    /\ UNCHANGED catalogVars
    /\ UNCHANGED <<diffVars, logVars, inflight>>

ScorecardRequest(metaName, specName, criteria) ==
    [metaName |-> metaName, specName |-> specName, criteria |-> criteria]

ScorecardRequests ==
    {ScorecardRequest(n, n, c) : n \in Names, c \in CritLists}
    \cup {ScorecardRequest("a", "b", <<Crit("a")>>),
          ScorecardRequest(Undef, "a", <<Crit("a")>>),
          ScorecardRequest("a", Undef, <<Crit("a")>>)}

ScorecardUpdateRequests ==
    {ScorecardRequest("a", "a", c) : c \in CritLists}
    \cup {ScorecardRequest("a", "b", <<Crit("a")>>),
          ScorecardRequest(Undef, "a", <<Crit("a")>>)}

\* the position of the failing remote call, and whether the catalog ignores
\* unknown deleteCriteria ids
UpdateFaults == {<<f, TRUE>> : f \in 0..5} \cup {<<0, FALSE>>}

CreateScorecard ==
    /\ session = "catalog"
    /\ MayCall
    /\ \E q \in ScorecardRequests, failAt \in 0..4 :
          \E r \in {createScorecard(metrics, scorecards, metricsCache,
                                    scorecardListCache,
                                    IdOf("scorecard", nextId["scorecard"] + 1),
                                    q.metaName, q.specName, q.criteria, failAt)} :
              CatalogStep(r, "scorecard")

UpdateScorecard ==
    /\ session = "catalog"
    /\ MayCall
    /\ \E id \in ScorecardIds, q \in ScorecardUpdateRequests, fault \in UpdateFaults :
          \E r \in {updateScorecard(metrics, scorecards, metricsCache,
                                    scorecardListCache, id, q.metaName, q.specName,
                                    q.criteria, fault[2], fault[1])} :
              CatalogStep(r, "scorecard")

DeleteScorecard ==
    /\ session = "catalog"
    /\ MayCall
    /\ \E id \in ScorecardIds, fault \in DeleteFaults(3) :
          \E r \in {deleteScorecard(metrics, scorecards, metricsCache,
                                    scorecardListCache, id, fault[1], fault[2])} :
              CatalogStep(r, "scorecard")

GetScorecard ==
    /\ session = "catalog"
    /\ MayCall
    /\ \E id \in ScorecardIds, failAt \in 0..2 :
          \E r \in {getScorecard(metrics, scorecards, metricsCache,
                                 scorecardListCache, id, failAt)} :
              CatalogStep(r, "scorecard")

InitOps ==
    /\ session \in {"component", "catalog"}
    /\ comps = {} /\ edges = {} /\ metrics = {} /\ scorecards = {}
    /\ nextId = [k \in Kinds |-> 0]
    /\ metricsCache = None /\ scorecardListCache = None
    /\ last = NoOp
    /\ hist = [deleted |-> [k \in Kinds |-> {}], ops |-> 0]
    /\ inflight = <<>>
    /\ IdleDiff
    /\ IdleLog

Next ==
    \/ CreateComponent \/ UpdateComponent \/ DeleteComponent \/ GetComponent
    \/ CreateMetric \/ UpdateMetric \/ DeleteMetric \/ GetMetric
    \/ CreateScorecard \/ UpdateScorecard \/ DeleteScorecard \/ GetScorecard

Spec == InitOps /\ [][Next]_vars

----------------------------------------------------------------------------
(* Properties of ComponentService *)

OutgoingTargets(id) == {e[2] : e \in {d \in edges : d[1] = id}}

NamedIn(D) == {c.id : c \in {x \in comps : Includes(D, x.name)}}

UniqueNames == \A c1, c2 \in comps : c1.name = c2.name => c1 = c2

\* C2: after updateComponent(id, spec) succeeds with dependsOn = D and no
\* remote call fails, the outgoing DEPENDS_ON edges of id target exactly the
\* components named in D
C2_EdgesMatchDependsOn ==
    (/\ last.op = "update" /\ last.kind = "component"
     /\ last.outcome = "ok" /\ ~last.remoteFailed
     /\ last.dependsOn # None
     /\ UniqueNames)
    => OutgoingTargets(last.id) = NamedIn(last.dependsOn[1])

\* C7: deleteComponent(X) while another component S depends on X fails with
\* Conflict, submits no delete mutation and reports S by S's id and name
C7_DeleteReportsDependents ==
    (/\ last.op = "delete" /\ last.kind = "component"
     /\ last.pre.inbound # {} /\ ~last.remoteFailed)
    => /\ last.outcome = "Conflict"
       /\ last.mutations = <<>>
       /\ last.pre.inbound \subseteq last.dependents

\* C9: when the primary mutation of createComponent or updateComponent
\* succeeded, the operation succeeds whatever fails in the dependency step
C9_DependencyFailureSwallowed ==
    (/\ last.op \in {"create", "update"} /\ last.kind = "component"
     /\ last.primaryOk)
    => last.outcome = "ok"

C9_Witness ==
    /\ last.op = "update" /\ last.kind = "component"
    /\ last.primaryOk /\ last.depFailed
    /\ last.outcome = "ok"
    /\ "createRelationship" \in Range(last.mutations)

----------------------------------------------------------------------------
(* Properties of the three services *)

Stored(kind) ==
    CASE kind = "component" -> comps
      [] kind = "metric"    -> metrics
      [] OTHER              -> scorecards

CreateMutations == {"createComponent", "createMetricDefinition", "createScorecard"}

\* the request was turned down by a validation of the service: BadRequest
\* without any failed remote call and without a mutation
Rejected == last.outcome = "BadRequest" /\ ~last.remoteFailed /\ last.mutations = <<>>

\* C5: a create whose name is the name of a resource that exists (created
\* earlier and not deleted) submits no create mutation and ends in Conflict,
\* unless the request is invalid or the lookup itself fails
C5_SecondCreateConflicts ==
    (last.op = "create" /\ last.pre.nameTaken)
    => /\ Range(last.mutations) \cap CreateMutations = {}
       /\ last.outcome = "Conflict" \/ last.remoteFailed \/ Rejected

\* C6: the Conflict of a create carries the id of the existing resource that
\* has the requested name
C6_ConflictCarriesExistingId ==
    (last.op = "create" /\ last.outcome = "Conflict")
    => \E r \in Stored(last.kind) : r.id = last.conflictId /\ r.name = last.name

\* C8: the delete of an existing resource without dependents succeeds when no
\* remote call fails, and no later getById of a deleted id finds the resource:
\* it ends in NotFound unless its own remote call fails
C8_DeletedIsNotFound ==
    /\ (/\ last.op = "delete" /\ last.pre.existed
        /\ ~last.pre.hasDependents /\ ~last.remoteFailed)
       => (last.outcome = "ok" /\ last.id \in hist.deleted[last.kind])
    /\ (last.op = "get" /\ last.id \in hist.deleted[last.kind])
       => /\ last.outcome # "ok"
          /\ ~last.remoteFailed => last.outcome = "NotFound"

C8_Witness ==
    /\ last.op = "get" /\ last.kind = "scorecard"
    /\ last.id \in hist.deleted["scorecard"]
    /\ last.outcome = "NotFound"
    /\ scorecardListCache # None

\* C10: whenever updateScorecard's validation reaches a verdict, it passes
\* exactly when every metric the criteria reference exists in the catalog,
\* whatever ScorecardService cached before the metrics changed
C10_ValidationSeesMetricChanges ==
    (last.op = "update" /\ last.kind = "scorecard" /\ last.validation # "none")
    => (last.validation = "passed"
        <=> last.refs \subseteq {m.name : m \in metrics})


----------------------------------------------------------------------------
(* SpecRace: createComponent and createMetric calls that overlap.

   A service method runs without interruption up to its next await (one
   Node.js event loop); while it waits for the reply of its name lookup or of
   its create mutation, other calls run.  The services hold no lock, and the
   catalog serves every request on the resources it stores at that moment. *)

MaxCallers == 2      \* calls in flight at the same time
Callers   == 1..MaxCallers
RaceKinds == {"component", "metric"}

IdleCall ==
    [pc |-> "idle", kind |-> "none", name |-> Undef, passed |-> FALSE,
     outcome |-> "none", id |-> Undef]

\* getComponentByName / getMetricByName on the catalog as it is when the
\* query is served
lookupByName(kind, C, E, M, name) ==
    IF kind = "component" THEN FindByName(AllComponents(C, E), name)
    ELSE FindByName(getAllMetrics(M), name)

\* the try/catch around the lookup: Conflict with the id found, or go on
afterLookup(call, found) ==
    IF found # None
    THEN [call EXCEPT !.pc = "done", !.outcome = "Conflict", !.id = found[1].id]
    ELSE [call EXCEPT !.pc = "mutate", !.passed = TRUE]

\* the lookup query failed: getComponentByName wraps the error, createMetric
\* rethrows it
lookupFailed(call) ==
    [call EXCEPT !.pc = "done",
                 !.outcome = IF call.kind = "component" THEN "BadRequest" ELSE "Error"]

NewResource(kind, id, name) ==
    IF kind = "component"
    THEN [id |-> id, name |-> name, typeId |-> "SERVICE", description |-> ""]
    ELSE [id |-> id, name |-> name]

submitCreate_Recheck(kind, stored, newId, name) ==
    IF \E r \in stored : r.name = name
    THEN [stored |-> stored, outcome |-> "Conflict"]
    ELSE [stored |-> stored \cup {NewResource(kind, newId, name)}, outcome |-> "ok"]

\* the create mutation, submitted with what the call learnt before its await
submitCreate(kind, stored, newId, name) ==
    [stored |-> stored \cup {NewResource(kind, newId, name)}, outcome |-> "ok"]

InitRace ==
    /\ session = "race"
    /\ comps = {} /\ edges = {} /\ metrics = {} /\ scorecards = {}
    /\ nextId = [k \in Kinds |-> 0]
    /\ metricsCache = None /\ scorecardListCache = None
    /\ last = NoOp
    /\ hist = [deleted |-> [k \in Kinds |-> {}], ops |-> 0]
    /\ inflight = [p \in Callers |-> IdleCall]
    /\ IdleDiff
    /\ IdleLog

raceFixed == <<session, edges, scorecards, metricsCache, scorecardListCache, last, diffVars, logVars>>

\* a create is called: the checks before the first await pass
RaceBegin(p) ==
    /\ inflight[p].pc = "idle"
    /\ hist.ops < MaxIds
    /\ \E kind \in RaceKinds, name \in Names :
          inflight' = [inflight EXCEPT ![p] =
                          [IdleCall EXCEPT !.pc = "lookup", !.kind = kind, !.name = name]]
    /\ hist' = Counted(hist)
    /\ UNCHANGED <<comps, metrics, nextId>>
    /\ UNCHANGED raceFixed

\* the lookup query of a call is served and the call runs to its next await
RaceLookupReply(p) ==
    /\ inflight[p].pc = "lookup"
    /\ \E fails \in BOOLEAN :
          inflight' = [inflight EXCEPT ![p] =
              IF fails THEN lookupFailed(@)
              ELSE afterLookup(@, lookupByName(@.kind, comps, edges, metrics, @.name))]
    /\ UNCHANGED <<comps, metrics, nextId, hist>>
    /\ UNCHANGED raceFixed

\* the create mutation of a call is served and the call returns
RaceMutationReply(p) ==
    /\ inflight[p].pc = "mutate"
    /\ LET call == inflight[p]
           kind == call.kind
           newId == IdOf(kind, nextId[kind] + 1)
       IN  \E fails \in BOOLEAN :
             \E r \in {submitCreate(kind, IF kind = "component" THEN comps ELSE metrics,
                                    newId, call.name)} :
               IF fails \/ r.outcome # "ok"
               THEN /\ inflight' = [inflight EXCEPT ![p] =
                                      [@ EXCEPT !.pc = "done",
                                                !.outcome = IF fails THEN "BadRequest"
                                                            ELSE r.outcome]]
                    /\ UNCHANGED <<comps, metrics, nextId>>
               ELSE /\ inflight' = [inflight EXCEPT ![p] =
                                      [@ EXCEPT !.pc = "done", !.outcome = "ok",
                                                !.id = newId]]
                    /\ comps' = IF kind = "component" THEN r.stored ELSE comps
                    /\ metrics' = IF kind = "metric" THEN r.stored ELSE metrics
                    /\ nextId' = [nextId EXCEPT ![kind] = @ + 1]
    /\ UNCHANGED hist
    /\ UNCHANGED raceFixed

NextRace ==
    \/ \E p \in Callers : RaceBegin(p)
    \/ \E p \in Callers : RaceLookupReply(p)
    \/ \E p \in Callers : RaceMutationReply(p)

SpecRace == InitRace /\ [][NextRace]_vars

StoredOf(kind) == IF kind = "component" THEN comps ELSE metrics

\* C11: nothing stands between a passed name check and the create: a call
\* that passed its check is never turned into a Conflict afterwards, and two
\* overlapping creates of one kind and one name N that both passed and both
\* succeeded leave two distinct existing resources named N.
C11_RacingCreatesDuplicate ==
    /\ \A p \in Callers :
          inflight[p].pc = "done" /\ inflight[p].passed
             => inflight[p].outcome \in {"ok", "BadRequest"}
    /\ \A p, q \in Callers :
          (/\ p # q
           /\ inflight[p].pc = "done" /\ inflight[p].outcome = "ok"
           /\ inflight[q].pc = "done" /\ inflight[q].outcome = "ok"
           /\ inflight[p].kind = inflight[q].kind
           /\ inflight[p].name = inflight[q].name)
          => /\ inflight[p].id # inflight[q].id
             /\ \E r1, r2 \in StoredOf(inflight[p].kind) :
                   /\ r1.id = inflight[p].id /\ r2.id = inflight[q].id
                   /\ r1.name = inflight[p].name /\ r2.name = inflight[p].name

C11_Witness ==
    \E p, q \in Callers :
        /\ p # q
        /\ inflight[p].pc = "done" /\ inflight[p].outcome = "ok" /\ inflight[p].passed
        /\ inflight[q].pc = "done" /\ inflight[q].outcome = "ok" /\ inflight[q].passed
        /\ inflight[p].kind = "component" /\ inflight[q].kind = "component"
        /\ inflight[p].name = inflight[q].name
        /\ Cardinality({c \in comps : c.name = inflight[p].name}) = 2


----------------------------------------------------------------------------
(* Properties of names and identity resolution *)

NamesUniqueIn(stored) == \A r1, r2 \in stored : r1.name = r2.name => r1 = r2

NamesUnique == \A kind \in Kinds : NamesUniqueIn(Stored(kind))

\* C12: with operations that do not overlap, names stay unique within a kind;
\* in particular an update that starts from unique names leaves them unique.
C12_UpdateKeepsNamesUnique ==
    [][(NamesUnique /\ last'.op = "update") => NamesUnique']_vars


\* C13: update(id, payload) and delete(id) with an id that matches no existing
\* resource submit no mutation and, unless the resolving query itself failed,
\* end in NotFound, whatever the payload holds.
C13_UnknownIdNotFound ==
    (last.op \in {"update", "delete"} /\ ~last.pre.existed)
        => /\ last.mutations = <<>>
           /\ (last.outcome = "NotFound" \/ last.remoteFailed)

\* an update of an unknown scorecard id whose payload has no metadata.name
C13_Witness ==
    /\ last.op = "update" /\ last.kind = "scorecard"
    /\ ~last.pre.existed
    /\ last.name = Undef
    /\ last.outcome = "NotFound"


----------------------------------------------------------------------------
(* Properties of payload validation *)

\* the operation ended in a BadRequest of its own field checks
FieldRejected == last.outcome = "BadRequest" /\ ~last.remoteFailed /\ last.fields # {}

\* C14: a create that is turned down by its field checks names every field
\* of the payload that breaks a check, not only the first one met.
C14_AllViolationsListed ==
    (last.op = "create" /\ FieldRejected) => last.fields = last.pre.violated


\* the request names, in dependsOn or in a criterion, a resource that does
\* not exist when the operation starts
UnresolvedReference ==
    last.pre.violated \cap {"spec.dependsOn", "spec.criteria.hasMetricValue.name"} # {}

\* C15: a create or update of a component or scorecard whose dependsOn names
\* or criteria metric names do not all resolve submits no mutation.
C15_NoMutationWhileUnresolved ==
    (last.op \in {"create", "update"} /\ UnresolvedReference)
        => last.mutations = <<>>


----------------------------------------------------------------------------
(* Properties of the criteria diff entries *)

\* C16: every updateCriteria entry carries the id of the existing criterion
\* of its name and the weight, comparator and comparatorValue of the desired
\* criterion of that name.
C16_UpdateCarriesDesiredValues ==
    dfOut # <<>> =>
        \A j \in DOMAIN dfOut[1].updateCriteria :
            LET u == dfOut[1].updateCriteria[j].hasMetricValue
                e == MapGet(existingCriteriaMap(dfE), u.name)[1]
                d == MapGet(newCriteriaMap(dfD), u.name)[1].hasMetricValue
            IN  /\ u.id = e.id
                /\ u.weight = ToString(d.weight)
                /\ "comparator" \in DOMAIN u
                /\ "comparatorValue" \in DOMAIN u
                /\ u.comparator = d.comparator
                /\ u.comparatorValue = ToString(d.comparatorValue)


----------------------------------------------------------------------------
(* Properties of the change log an update returns *)

NamesOfIds(ids) == {c.name : c \in {x \in comps : x.id \in ids}}

\* v is the array of the dependencies ids, as ids or as names
ListsDependencies(v, ids) ==
    /\ v[1] = "array"
    /\ Range(v[2]) \in {ids, NamesOfIds(ids)}

\* C17: when a successful updateComponent changed the outgoing DEPENDS_ON
\* edges of the component, its change log holds a spec.dependsOn record whose
\* oldValue lists the previous dependencies and whose newValue lists the new
\* ones.
C17_ChangeLogShowsDependencyChange ==
    (/\ last.op = "update" /\ last.kind = "component" /\ last.primaryOk
     /\ last.pre.targets # OutgoingTargets(last.id))
    => \E i \in DOMAIN last.changes[1] :
          /\ last.changes[1][i].field = "spec.dependsOn"
          /\ ListsDependencies(last.changes[1][i].oldValue, last.pre.targets)
          /\ ListsDependencies(last.changes[1][i].newValue, OutgoingTargets(last.id))


\* C18: updateMetric on an existing metric with a payload whose
\* grading-system is outside the allowed set or whose cronSchedule is
\* malformed submits no mutation and fails with a validation error.
C18_UpdateMetricValidates ==
    (/\ last.op = "update" /\ last.kind = "metric"
     /\ last.pre.existed /\ last.pre.violated # {})
    => /\ last.mutations = <<>>
       /\ (last.outcome = "BadRequest" \/ last.remoteFailed)


----------------------------------------------------------------------------
(* Properties of deleteMetric *)

\* the scorecards that hold a criterion on the metric with this id
ReferencingScorecards(id) ==
    {s.id : s \in {x \in scorecards :
                     \E m \in metrics : m.id = id /\
                        \E i \in DOMAIN x.criterias : x.criterias[i].name = m.name}}

\* C19: deleting a metric that a criterion of an existing scorecard
\* references submits no delete mutation and fails with a Conflict that lists
\* the referencing resources.
C19_DeleteMetricChecksReferences ==
    (/\ last.op = "delete" /\ last.kind = "metric"
     /\ last.pre.existed /\ last.pre.hasDependents)
    => /\ last.mutations = <<>>
       /\ \/ last.remoteFailed
          \/ /\ last.outcome = "Conflict"
             /\ {d[1] : d \in last.dependents} = ReferencingScorecards(last.id)


----------------------------------------------------------------------------
(* Properties of generateChangeLog on collections *)

\* two arrays with the same elements, each as many times, in any order
SameElements(a, b) ==
    /\ a[1] = "array" /\ b[1] = "array"
    /\ Len(a[2]) = Len(b[2])
    /\ \A x \in Range(a[2]) \cup Range(b[2]) :
          Cardinality({i \in DOMAIN a[2] : a[2][i] = x})
              = Cardinality({i \in DOMAIN b[2] : b[2][i] = x})

\* C20: when the before and after values of labels, links, dependsOn or
\* componentTypeIds hold the same elements in a different order, the change
\* log has no record for that field.
C20_ReorderedCollectionNoRecord ==
    clOut # <<>> =>
        \A f \in {"labels", "links", "dependsOn", "componentTypeIds"} \cap Tracked(clKind) :
            SameElements(SpecValue(clA, f), SpecValue(clB, f))
                => ~HasChange("spec." \o f)


----------------------------------------------------------------------------
(* Properties of the criteria record of the scorecard change log *)

\* the spec.criteria records of the computed log
CriteriaRecords ==
    SeqFilterIdx(clOut[1], {i \in DOMAIN clOut[1] : clOut[1][i].field = "spec.criteria"}, 1)

\* C21: for scorecards, equal criteria give no spec.criteria record; criteria
\* lists of different length give one record holding the before and after
\* counts; different lists of equal length give one record whose old and new
\* values differ.
C21_CriteriaRecord ==
    (clOut # <<>> /\ clKind = "scorecard") =>
        LET a == Field(clA.spec, "criteria")
            b == Field(clB.spec, "criteria")
        IN  /\ a = b => CriteriaRecords = <<>>
            /\ (a # b /\ CountText(a) # CountText(b)) =>
                  /\ Len(CriteriaRecords) = 1
                  /\ CriteriaRecords[1].oldValue = JsStr(CountText(a))
                  /\ CriteriaRecords[1].newValue = JsStr(CountText(b))
            /\ (a # b /\ CountText(a) = CountText(b)) =>
                  /\ Len(CriteriaRecords) = 1
                  /\ CriteriaRecords[1].oldValue # CriteriaRecords[1].newValue


----------------------------------------------------------------------------
(* Properties of resolution by name *)

----------------------------------------------------------------------------
(* Overlapping calls on one ScorecardService.  The service is a singleton
   whose two cache fields are shared by every call; a call runs from one
   await to the next without interruption, and the catalog serves every
   request on the resources it stores at that moment.  The calls are
   getAllScorecards, getScorecard and deleteScorecard, on a catalog that holds
   one metric and MaxIds scorecards. *)

CacheOps == {"getAllScorecards", "getScorecard", "deleteScorecard"}

IdleCacheCall ==
    [pc |-> "idle", op |-> "none", id |-> Undef, raw |-> <<>>,
     outcome |-> "none", afterDelete |-> FALSE]

\* the scorecard a createScorecard call stores
StartScorecard(n) ==
    [id |-> IdOf("scorecard", n), name |-> IF n = 1 THEN "a" ELSE "b",
     criterias |-> <<StoredCriterion(IdOf("scorecard", n), CreateEntry(Crit("a")))>>]

\* what the caller of getAllScorecards does with the list it returns
afterList(call, list) ==
    IF call.op = "getAllScorecards"
    THEN [call EXCEPT !.pc = "done", !.outcome = "ok"]
    ELSE IF FindById(list, call.id) = None
    THEN [call EXCEPT !.pc = "done", !.outcome = "NotFound"]
    ELSE IF call.op = "getScorecard"
    THEN [call EXCEPT !.pc = "done", !.outcome = "ok"]
    ELSE [call EXCEPT !.pc = "mutate"]

InitCache ==
    /\ session = "cache"
    /\ comps = {} /\ edges = {}
    /\ metrics = {[id |-> IdOf("metric", 1), name |-> "a"]}
    /\ scorecards = {StartScorecard(n) : n \in 1..MaxIds}
    /\ nextId = [k \in Kinds |-> IF k = "metric" THEN 1
                                 ELSE IF k = "scorecard" THEN MaxIds ELSE 0]
    /\ metricsCache = None /\ scorecardListCache = None
    /\ last = NoOp
    /\ hist = [deleted |-> [k \in Kinds |-> {}], ops |-> 0]
    /\ inflight = [p \in Callers |-> IdleCacheCall]
    /\ IdleDiff
    /\ IdleLog

cacheFixed == <<session, comps, edges, metrics, nextId, last, diffVars, logVars>>

\* a call starts and runs to its first await: the list is served from the
\* cache, or the scorecards query is sent
CacheBegin(p) ==
    /\ inflight[p].pc \in {"idle", "done"}
    /\ hist.ops < MaxOps
    /\ \E op \in CacheOps, n \in 1..MaxIds :
          \E call \in {[IdleCacheCall EXCEPT
                           !.op = op,
                           !.id = IF op = "getAllScorecards" THEN Undef
                                  ELSE IdOf("scorecard", n),
                           !.afterDelete = /\ op # "getAllScorecards"
                                           /\ IdOf("scorecard", n)
                                                 \in hist.deleted["scorecard"]]} :
              /\ op = "getAllScorecards" => n = 1
              /\ inflight' = [inflight EXCEPT ![p] =
                     IF scorecardListCache # None
                     THEN afterList(call, scorecardListCache[1])
                     ELSE [call EXCEPT !.pc = "scorecards"]]
    /\ hist' = Counted(hist)
    /\ UNCHANGED <<scorecards, metricsCache, scorecardListCache>>
    /\ UNCHANGED cacheFixed

\* the scorecards query of a call is served; the call goes on to getMetrics,
\* which returns the cached metrics or sends the metrics query
CacheScorecardsReply(p) ==
    /\ inflight[p].pc = "scorecards"
    /\ \E fails \in BOOLEAN :
          \E rawScorecards \in {FirstN(Listed("scorecard", scorecards, IdBound(scorecards)),
                                       ScorecardsFirst)} :
             IF fails
             THEN /\ inflight' = [inflight EXCEPT ![p] =
                                     [@ EXCEPT !.pc = "done", !.outcome = "Error"]]
                  /\ UNCHANGED scorecardListCache
             ELSE IF metricsCache = None
             THEN /\ inflight' = [inflight EXCEPT ![p] =
                                     [@ EXCEPT !.pc = "metrics", !.raw = rawScorecards]]
                  /\ UNCHANGED scorecardListCache
             ELSE /\ scorecardListCache' =
                        Some(MappedScorecards(rawScorecards, metricsCache[1]))
                  /\ inflight' = [inflight EXCEPT ![p] =
                        afterList(@, MappedScorecards(rawScorecards, metricsCache[1]))]
    /\ UNCHANGED <<scorecards, metricsCache, hist>>
    /\ UNCHANGED cacheFixed

\* the metrics query of a call is served: getMetrics stores the metrics,
\* getAllScorecards stores the list mapped from the nodes it received earlier
CacheMetricsReply(p) ==
    /\ inflight[p].pc = "metrics"
    /\ \E fails \in BOOLEAN :
          IF fails
          THEN /\ inflight' = [inflight EXCEPT ![p] =
                                  [@ EXCEPT !.pc = "done", !.outcome = "Error"]]
               /\ UNCHANGED <<metricsCache, scorecardListCache>>
          ELSE \E metricsList \in {getAllMetrics(metrics)} :
                 /\ metricsCache' = Some(metricsList)
                 /\ scorecardListCache' =
                       Some(MappedScorecards(inflight[p].raw, metricsList))
                 /\ inflight' = [inflight EXCEPT ![p] =
                       afterList(@, MappedScorecards(inflight[p].raw, metricsList))]
    /\ UNCHANGED <<scorecards, hist>>
    /\ UNCHANGED cacheFixed

\* the deleteScorecard mutation of a call is served; the catalog reports a
\* failure for a scorecard it no longer stores
CacheDeleteReply(p) ==
    /\ inflight[p].pc = "mutate"
    /\ \E fails \in BOOLEAN :
          IF fails \/ ~\E s \in scorecards : s.id = inflight[p].id
          THEN /\ inflight' = [inflight EXCEPT ![p] =
                                  [@ EXCEPT !.pc = "done", !.outcome = "BadRequest"]]
               /\ UNCHANGED <<scorecards, metricsCache, scorecardListCache, hist>>
          ELSE /\ scorecards' = {s \in scorecards : s.id # inflight[p].id}
               /\ metricsCache' = clearCaches(metricsCache, scorecardListCache).mc
               /\ scorecardListCache' = clearCaches(metricsCache, scorecardListCache).sc
               /\ hist' = [hist EXCEPT !.deleted["scorecard"] = @ \cup {inflight[p].id}]
               /\ inflight' = [inflight EXCEPT ![p] =
                                  [@ EXCEPT !.pc = "done", !.outcome = "ok"]]
    /\ UNCHANGED cacheFixed

NextCache ==
    \/ \E p \in Callers : CacheBegin(p)
    \/ \E p \in Callers : CacheScorecardsReply(p)
    \/ \E p \in Callers : CacheMetricsReply(p)
    \/ \E p \in Callers : CacheDeleteReply(p)

SpecCache == InitCache /\ [][NextCache]_vars

\* C23: a getScorecard(id) that starts after a deleteScorecard(id) returned
\* success never returns the scorecard, whatever other calls were in flight
\* while the delete ran.
C23_DeletedNeverServed ==
    \A p \in Callers :
        (/\ inflight[p].op = "getScorecard"
         /\ inflight[p].pc = "done"
         /\ inflight[p].afterDelete)
        => inflight[p].outcome # "ok"

----------------------------------------------------------------------------
\* a text that tells that the resource is in use or referenced by another one
RefersToReferences(errorMsg) == \E ph \in Phrases : TextIncludes(errorMsg, ph)

\* C24: a delete whose mutation reports a failure fails with Conflict when
\* the error text tells that the resource is in use or referenced, and with
\* BadRequest otherwise, for every kind; the resource stays stored and the
\* scorecard list cache read by the delete is not cleared.
C24_DeleteRejectionClassified ==
    (last.op = "delete" /\ last.errorMsg # None)
    => /\ last.outcome = IF RefersToReferences(last.errorMsg[1])
                         THEN "Conflict" ELSE "BadRequest"
       /\ ~last.primaryOk
       /\ \E r \in Stored(last.kind) : r.id = last.id
       /\ last.kind = "scorecard" => scorecardListCache # None

----------------------------------------------------------------------------
UpdateMutations == {"updateComponent", "updateMetricDefinition", "updateScorecard"}

\* C25: the input of an update mutation carries no scalar field whose value
\* equals the value the resource had when the update started.
C25_OnlyChangedScalarsSent ==
    (/\ last.op = "update"
     /\ last.mutations # <<>> /\ last.mutations[1] \in UpdateMutations)
    => last.sent \cap last.pre.current = {}

----------------------------------------------------------------------------
\* the fields checked for presence or against a fixed set of allowed values
RequiredOrEnumFields == {"spec.name", "metadata.name", "spec.typeId", "spec.grading-system"}

\* C26: a create whose payload lacks a required field or carries an enum
\* field outside its allowed set fails with a validation error naming fields,
\* and no remote read was issued for it: it is neither a Conflict nor the
\* failure of a remote call, also when the name is taken.
C26_ValidationBeforeLookup ==
    (last.op = "create" /\ last.pre.violated \cap RequiredOrEnumFields # {})
    => /\ last.outcome = "BadRequest"
       /\ last.fields # {}
       /\ ~last.remoteFailed
       /\ ~last.lookupFailed

----------------------------------------------------------------------------
\* the list a getAllScorecards call builds from the catalog as it is now
FreshScorecardList ==
    MappedScorecards(FirstN(Listed("scorecard", scorecards, IdBound(scorecards)), ScorecardsFirst),
                     getAllMetrics(metrics))

\* C27: without overlapping calls, the first getAllScorecards call of a
\* scorecard operation queries the catalog exactly when scorecardListCache was
\* null, and a successful scorecard mutation leaves no list read before it in
\* the cache: after createScorecard and deleteScorecard the cache is null, and
\* after updateScorecard it is null or holds the list its re-fetch queried
\* after the mutation.
C27_CacheReadAndCleared ==
    /\ (last.kind = "scorecard" /\ last.listRead # "none")
          => (last.listRead = "remote" <=> ~last.pre.cached)
    /\ (last.kind = "scorecard" /\ last.primaryOk /\ last.op \in {"create", "delete"})
          => scorecardListCache = None
    /\ (last.kind = "scorecard" /\ last.primaryOk /\ last.op = "update")
          => scorecardListCache = IF last.remoteFailed THEN None
                                  ELSE Some(FreshScorecardList)

\* an update served its first read from the cache and, having changed the
\* scorecard, left the re-fetched list in the cache
C27_Witness ==
    /\ last.op = "update" /\ last.kind = "scorecard"
    /\ last.pre.cached /\ last.listRead = "cache"
    /\ last.primaryOk /\ ~last.remoteFailed
    /\ scorecardListCache = Some(FreshScorecardList)

----------------------------------------------------------------------------
\* the last operation ended in an error raised by one of its own checks: not
\* by a remote call that failed, nor by a mutation that reported a failure
RaisedByCheck ==
    /\ last.op \in {"create", "update", "delete"}
    /\ last.outcome \in {"BadRequest", "NotFound", "Conflict"}
    /\ ~last.remoteFailed
    /\ last.errorMsg = None

----------------------------------------------------------------------------
\* the targets of the DEPENDS_ON edges that leave the component of the last
\* operation
OutgoingNow == {e[2] : e \in {d \in edges : d[1] = last.id}}

\* C29: an updateComponent whose payload has no dependsOn makes no remote
\* call for relationships, submits at most the updateComponent mutation and
\* leaves the component's outgoing dependency edges as they were; an
\* updateComponent with dependsOn present, the empty list included, whose
\* mutation succeeded runs the relationship reconciliation.
C29_NoDependsOnNoReconciliation ==
    /\ (last.op = "update" /\ last.kind = "component" /\ last.dependsOn = None)
          => /\ last.relCalls = 0
             /\ last.mutations \in {<<>>, <<"updateComponent">>}
             /\ last.pre.existed => OutgoingNow = last.pre.targets
    /\ (last.op = "update" /\ last.kind = "component" /\ last.dependsOn # None
           /\ last.primaryOk)
          => last.relCalls > 0

\* a component with a dependency was updated without dependsOn
C29_Witness ==
    /\ last.op = "update" /\ last.kind = "component"
    /\ last.dependsOn = None /\ last.primaryOk
    /\ last.pre.targets # {}
    /\ OutgoingNow = last.pre.targets

----------------------------------------------------------------------------
\* C30: an updateComponent whose dependsOn names exactly the components the
\* component depends on submits no createRelationship and no
\* deleteRelationship mutation.
C30_UnchangedDependenciesNoMutation ==
    (/\ last.op = "update" /\ last.kind = "component"
     /\ last.pre.existed /\ last.dependsOn # None
     /\ Range(last.dependsOn[1]) = NamesOfIds(last.pre.targets))
    => \A i \in DOMAIN last.mutations :
          last.mutations[i] \notin {"createRelationship", "deleteRelationship"}

----------------------------------------------------------------------------
(* Properties of updateMetric *)

\* the stored metric with the id of the last operation, as getMetric reads it
MetricNow == FindById(getAllMetrics(metrics), last.id)

\* C31: updateMetric on an existing metric with a payload that carries none
\* of metadata.name, spec.description and spec.format.unit submits no
\* mutation and returns the existing metric, unchanged, with an empty
\* change log.
C31_EmptyUpdateIsNoOp ==
    (/\ last.op = "update" /\ last.kind = "metric"
     /\ last.pre.existed /\ last.outcome # "Error"
     /\ last.variables = {})
    => /\ last.outcome = "ok"
       /\ last.mutations = <<>>
       /\ ~last.changed
       /\ last.changes = Some(<<>>)
       /\ last.returned = MetricNow
       /\ last.pre.current = ScalarsOf(metrics, last.id, {"name"})

C31_Witness ==
    /\ last.op = "update" /\ last.kind = "metric"
    /\ last.pre.existed /\ last.outcome = "ok"
    /\ last.variables = {}
    /\ last.pre.violated # {}

----------------------------------------------------------------------------
(* Name resolution on collections of any size.  The catalog of this
   specification starts with one kind of resource filled up to, or one past,
   the page size its collection query asks for; getByName and the creates run
   against it. *)

MaxPageOps == 2

FirstOf(kind) ==
    CASE kind = "component" -> ComponentsFirst
      [] kind = "metric"    -> MetricsFirst
      [] OTHER              -> ScorecardsFirst

\* the name of the n-th resource the catalog starts with
PageName(n) == "n" \o ToString(n)

PageResource(kind, n) ==
    IF kind = "scorecard"
    THEN [id |-> IdOf(kind, n), name |-> PageName(n), criterias |-> <<>>]
    ELSE NewResource(kind, IdOf(kind, n), PageName(n))

\* the collection sizes the catalog starts with
PageFills(kind) == {1, FirstOf(kind) - 1, FirstOf(kind), FirstOf(kind) + 1}

\* the resources whose names the requests use, and one name nothing has
PageProbes(kind) == {1, FirstOf(kind) - 1, FirstOf(kind), FirstOf(kind) + 1, 0}

\* the result of an operation of any of the three services
PageResult(C, E, cat) ==
    [comps |-> C, edges |-> E, metrics |-> cat.metrics, scorecards |-> cat.scorecards,
     mc |-> cat.mc, sc |-> cat.sc, created |-> cat.created, last |-> cat.last]

\* getComponentByName / getMetricByName with the list that was fetched
getByNameFound(base, list, name, fetchFailed) ==
    CASE byNameLookup(list, name, fetchFailed) = "failed" ->
             [base EXCEPT !.outcome = IF base.kind = "component" THEN "BadRequest"
                                      ELSE "Error",
                          !.remoteFailed = TRUE, !.lookupFailed = TRUE]
      [] byNameLookup(list, name, fetchFailed) = "NotFound" ->
             [base EXCEPT !.outcome = "NotFound"]
      [] OTHER -> [base EXCEPT !.outcome = "ok", !.id = FindByName(list, name)[1].id]

\* getScorecardByName with what getAllScorecards returned
getScorecardByNameRead(M, S, base, name, r1) ==
    CatResult(M, S, r1.mc, r1.sc, FALSE,
        getByNameFound([base EXCEPT !.listRead = ListReadOf(r1)], r1.list, name, ~r1.ok))

getByName(kind, C, E, M, S, mc, sc, name, failAt) ==
    LET base == [Done("getByName", kind, name, Undef, "Error")
                 EXCEPT !.pre = [NoPre EXCEPT
                                    !.cached = sc # None,
                                    !.nameTaken =
                                        \E r \in (CASE kind = "component" -> C
                                                    [] kind = "metric" -> M
                                                    [] OTHER -> S) : r.name = name]]
    IN  CASE kind = "component" ->
                 PageResult(C, E, CatResult(M, S, mc, sc, FALSE,
                     getByNameFound(base, AllComponents(C, E), name, failAt = 1)))
          [] kind = "metric" ->
                 PageResult(C, E, CatResult(M, S, mc, sc, FALSE,
                     getByNameFound(base, getAllMetrics(M), name, failAt = 1)))
          [] OTHER ->
                 PageResult(C, E, getScorecardByNameRead(M, S, base, name,
                     getAllScorecards(S, M, mc, sc, failAt, 0)))

\* the create of each service, for a payload that has the name and valid
\* values for the required fields
createNamed(kind, C, E, M, S, mc, sc, newId, name, failAt) ==
    CASE kind = "component" ->
             LET r == createComponent(C, E, newId, name, name, "SERVICE", <<>>, failAt)
             IN  PageResult(r.comps, r.edges, CatResult(M, S, mc, sc, r.created, r.last))
      [] kind = "metric" ->
             PageResult(C, E, createMetric(M, S, mc, sc, newId, name, Undef, Undef, failAt))
      [] OTHER ->
             PageResult(C, E, createScorecard(M, S, mc, sc, newId, name, name, <<>>, failAt))

InitPage ==
    /\ session = "page"
    /\ \E kind \in Kinds : \E n \in PageFills(kind) :
          /\ comps = IF kind = "component"
                     THEN {PageResource(kind, k) : k \in 1..n} ELSE {}
          /\ metrics = IF kind = "metric"
                       THEN {PageResource(kind, k) : k \in 1..n} ELSE {}
          /\ scorecards = IF kind = "scorecard"
                          THEN {PageResource(kind, k) : k \in 1..n} ELSE {}
          /\ nextId = [k \in Kinds |-> IF k = kind THEN n ELSE 0]
    /\ edges = {}
    /\ metricsCache = None /\ scorecardListCache = None
    /\ last = NoOp
    /\ hist = [deleted |-> [k \in Kinds |-> {}], ops |-> 0]
    /\ inflight = <<>>
    /\ IdleDiff
    /\ IdleLog

\* the kind of resource the catalog of this specification holds
PageKind == CHOOSE kind \in Kinds : nextId[kind] > 0

PageStep(r) ==
    /\ comps' = r.comps
    /\ edges' = r.edges
    /\ metrics' = r.metrics
    /\ scorecards' = r.scorecards
    /\ metricsCache' = r.mc
    /\ scorecardListCache' = r.sc
    /\ nextId' = IF r.created THEN [nextId EXCEPT ![PageKind] = @ + 1] ELSE nextId
    /\ last' = r.last
    /\ hist' = Counted(hist)
    /\ UNCHANGED <<session, diffVars, logVars, inflight>>

PageGetByName ==
    /\ session = "page"
    /\ hist.ops < MaxPageOps
    /\ \E n \in PageProbes(PageKind), failAt \in 0..1 :
          \E r \in {getByName(PageKind, comps, edges, metrics, scorecards,
                              metricsCache, scorecardListCache, PageName(n), failAt)} :
              PageStep(r)

PageCreate ==
    /\ session = "page"
    /\ hist.ops < MaxPageOps
    /\ \E n \in PageProbes(PageKind), failAt \in 0..2 :
          \E r \in {createNamed(PageKind, comps, edges, metrics, scorecards,
                                metricsCache, scorecardListCache,
                                IdOf(PageKind, nextId[PageKind] + 1),
                                PageName(n), failAt)} :
              PageStep(r)

NextPage == PageGetByName \/ PageCreate

SpecPage == InitPage /\ [][NextPage]_vars

\* C32: resolution by name scans the whole remote collection.  For every
\* stored resource R of a kind, however many resources of the kind exist,
\* getByName(R.name) succeeds and the collision check of a create for R.name
\* ends in Conflict, unless the fetch of the collection fails.
C32_NameLookupScansAll ==
    /\ (/\ last.op = "getByName" /\ last.pre.nameTaken /\ ~last.remoteFailed)
       => last.outcome = "ok"
    /\ (/\ last.op = "create" /\ last.pre.nameTaken /\ ~last.lookupFailed)
       => /\ last.outcome = "Conflict"
          /\ last.mutations = <<>>

----------------------------------------------------------------------------
(* deleteComponent and its dependents query *)

\* C34: deleteComponent submits the delete mutation only after the
\* dependents query answered: when that query fails, no mutation is
\* submitted and the component stays stored.
C34_DeleteNeedsDependentsAnswer ==
    (/\ last.op = "delete" /\ last.kind = "component"
     /\ last.pre.existed /\ last.depFailed)
    => /\ last.mutations = <<>>
       /\ \E c \in comps : c.id = last.id

----------------------------------------------------------------------------
(* The name a create looks up and the name it creates *)

\* C36: in a create of any kind the name of the collision lookup is the name
\* sent in the create mutation: the resource a successful create stored has
\* the name that was looked up.
C36_LookupNameIsCreatedName ==
    (/\ last.op = "create" /\ last.primaryOk)
    => \E r \in Stored(last.kind) : r.id = last.id /\ r.name = last.name

----------------------------------------------------------------------------
(* The identifier of a deleteCriteria entry *)

\* C37: every deleteCriteria entry names the criterion to remove by the
\* existing criterion's own id, the identifier an updateCriteria entry
\* carries for a criterion, and never by the id of the metric definition the
\* criterion refers to.
C37_DeleteByCriterionId ==
    dfOut # <<>> =>
        LET out == dfOut[1]
            del == {i \in DOMAIN dfE : dfE[i].name \in KeysE \ KeysD}
            upd == {i \in DOMAIN dfE : dfE[i].name \in KeysE \cap KeysD}
        IN  /\ {out.deleteCriteria[j].id : j \in DOMAIN out.deleteCriteria}
                 = {dfE[i].id : i \in del}
            /\ {out.updateCriteria[j].hasMetricValue.id : j \in DOMAIN out.updateCriteria}
                 \subseteq {dfE[i].id : i \in upd}

----------------------------------------------------------------------------
(* deleteComponent overlapping a createComponent or updateComponent that
   names the deleted component in dependsOn.  Each caller runs one operation;
   a step is the reply to the remote call the operation awaits, served on the
   catalog as it is at that moment.  No remote call fails here, and the
   catalog refuses a relationship whose source or target it does not hold. *)

DepOps == {"deleteComponent", "createComponent", "updateComponent"}

\* the component the delete names (X), the component the update names and
\* the name the create asks for
DepTarget  == IdOf("component", 1)
DepUpdated == IdOf("component", 2)
DepDependsOn == <<"a">>

IdleDepCall ==
    [pc |-> "idle", op |-> "none", id |-> Undef, calls |-> <<>>, outcome |-> "none",
     inboundAtDelete |-> FALSE, linked |-> FALSE]

\* the first await of each operation
DepStart(op) ==
    CASE op = "deleteComponent" ->
             [IdleDepCall EXCEPT !.op = op, !.pc = "getComponent", !.id = DepTarget]
      [] op = "updateComponent" ->
             [IdleDepCall EXCEPT !.op = op, !.pc = "getComponent", !.id = DepUpdated]
      [] OTHER -> [IdleDepCall EXCEPT !.op = op, !.pc = "lookup"]

DepEnd(call, outcome) == [call EXCEPT !.pc = "done", !.outcome = outcome]

\* after getComponent answered: deleteComponent goes on to checkDependencies,
\* updateComponent to the validation of dependsOn
afterGetComponent(call, found) ==
    IF found = None THEN DepEnd(call, "NotFound")
    ELSE IF call.op = "deleteComponent" THEN [call EXCEPT !.pc = "checkDependencies"]
    ELSE [call EXCEPT !.pc = "validate"]

\* deleteComponent after checkDependencies returned
afterCheckDependencies(call, dependencies) ==
    IF Len(dependencies) > 0 THEN DepEnd(call, "Conflict")
    ELSE [call EXCEPT !.pc = "mutate"]

\* createComponent after getComponentByName
afterNameLookup(call, found) ==
    IF found # None THEN DepEnd(call, "Conflict") ELSE [call EXCEPT !.pc = "validate"]

\* the dependsOn validation against the names of the fetched list
afterValidation(call, all, dependsOn) ==
    IF \E i \in DOMAIN dependsOn :
          ~Includes([j \in DOMAIN all |-> all[j].name], dependsOn[i])
    THEN DepEnd(call, "BadRequest")
    ELSE [call EXCEPT !.pc = "mutate"]

\* createDependencyRelationships / updateDependencyRelationships after
\* getAllComponents answered: the createRelationship calls to make.  The
\* removal loop of the update looks target ids up in a map keyed by names and
\* finds none.
afterDependencyList(call, all, dependenciesToAdd) ==
    LET calls == CreateCalls(dependenciesToAdd, componentMap(all), 1)
    IN  IF calls = <<>> THEN DepEnd(call, "ok")
        ELSE [call EXCEPT !.pc = "link", !.calls = calls]

InitDep ==
    /\ session = "dep"
    /\ comps \in {{NewResource("component", IdOf("component", n),
                               IF n = 1 THEN "a" ELSE "b") : n \in 1..k} : k \in 1..2}
    /\ edges = {}
    /\ metrics = {} /\ scorecards = {}
    /\ nextId = [k \in Kinds |-> IF k = "component" THEN Cardinality(comps) ELSE 0]
    /\ metricsCache = None /\ scorecardListCache = None
    /\ last = NoOp
    /\ hist = [deleted |-> [k \in Kinds |-> {}], ops |-> 0]
    /\ inflight = [p \in Callers |-> IdleDepCall]
    /\ IdleDiff
    /\ IdleLog

depFixed == <<session, metrics, scorecards, metricsCache, scorecardListCache, last, hist, diffVars, logVars>>

\* an operation is called; createComponent asks for the name "b"
DepBegin(p) ==
    /\ session = "dep"
    /\ inflight[p].pc = "idle"
    /\ \E op \in DepOps :
          inflight' = [inflight EXCEPT ![p] = DepStart(op)]
    /\ UNCHANGED <<comps, edges, nextId>>
    /\ UNCHANGED depFixed

\* the component query of getComponent is answered
DepGetComponentReply(p) ==
    /\ inflight[p].pc = "getComponent"
    /\ inflight' = [inflight EXCEPT ![p] =
                      afterGetComponent(@, ComponentById(comps, edges, @.id))]
    /\ UNCHANGED <<comps, edges, nextId>>
    /\ UNCHANGED depFixed

\* the dependents query of checkDependencies is answered
DepDependentsReply(p) ==
    /\ inflight[p].pc = "checkDependencies"
    /\ inflight' = [inflight EXCEPT ![p] =
                      afterCheckDependencies(@,
                          IF \E c \in comps : c.id = @.id
                          THEN checkDependencies(comps, edges, @.id) ELSE <<>>)]
    /\ UNCHANGED <<comps, edges, nextId>>
    /\ UNCHANGED depFixed

\* the getAllComponents of createComponent's name lookup is answered
DepLookupReply(p) ==
    /\ inflight[p].pc = "lookup"
    /\ inflight' = [inflight EXCEPT ![p] =
                      afterNameLookup(@, FindByName(AllComponents(comps, edges), "b"))]
    /\ UNCHANGED <<comps, edges, nextId>>
    /\ UNCHANGED depFixed

\* the getAllComponents of the dependsOn validation is answered
DepValidateReply(p) ==
    /\ inflight[p].pc = "validate"
    /\ inflight' = [inflight EXCEPT ![p] =
                      afterValidation(@, AllComponents(comps, edges), DepDependsOn)]
    /\ UNCHANGED <<comps, edges, nextId>>
    /\ UNCHANGED depFixed

\* the deleteComponent mutation is answered: the catalog removes the
\* component with its relationships, or reports that it holds no such
\* component
DepDeleteReply(p) ==
    /\ inflight[p].pc = "mutate" /\ inflight[p].op = "deleteComponent"
    /\ LET id == inflight[p].id
       IN  IF \E c \in comps : c.id = id
           THEN /\ comps' = {c \in comps : c.id # id}
                /\ edges' = {e \in edges : e[1] # id /\ e[2] # id}
                /\ inflight' = [inflight EXCEPT ![p] =
                                  [DepEnd(@, "ok") EXCEPT
                                      !.inboundAtDelete = \E e \in edges : e[2] = id]]
           ELSE /\ inflight' = [inflight EXCEPT ![p] = DepEnd(@, "BadRequest")]
                /\ UNCHANGED <<comps, edges>>
    /\ UNCHANGED nextId
    /\ UNCHANGED depFixed

\* the createComponent / updateComponent mutation is answered
DepPrimaryReply(p) ==
    /\ inflight[p].pc = "mutate" /\ inflight[p].op # "deleteComponent"
    /\ IF inflight[p].op = "createComponent"
       THEN /\ nextId["component"] < MaxIds
            /\ LET newId == IdOf("component", nextId["component"] + 1)
               IN  /\ comps' = comps \cup {NewResource("component", newId, "b")}
                   /\ inflight' = [inflight EXCEPT ![p] =
                                      [@ EXCEPT !.pc = "dependencyList", !.id = newId]]
            /\ nextId' = [nextId EXCEPT !["component"] = @ + 1]
       ELSE /\ IF \E c \in comps : c.id = inflight[p].id
               THEN inflight' = [inflight EXCEPT ![p] = [@ EXCEPT !.pc = "current"]]
               ELSE inflight' = [inflight EXCEPT ![p] = DepEnd(@, "BadRequest")]
            /\ UNCHANGED <<comps, nextId>>
    /\ UNCHANGED edges
    /\ UNCHANGED depFixed

\* the getComponent of updateDependencyRelationships is answered; a failure
\* there is swallowed and ends the dependency step
DepCurrentReply(p) ==
    /\ inflight[p].pc = "current"
    /\ inflight' = [inflight EXCEPT ![p] =
                      IF ComponentById(comps, edges, @.id) = None
                      THEN DepEnd(@, "ok")
                      ELSE [@ EXCEPT !.pc = "dependencyList",
                                     !.calls = ComponentById(comps, edges,
                                                            inflight[p].id)[1].dependsOn]]
    /\ UNCHANGED <<comps, edges, nextId>>
    /\ UNCHANGED depFixed

\* the getAllComponents that feeds componentMap is answered; call.calls holds
\* the currentDependencies of an update until then
DepListReply(p) ==
    /\ inflight[p].pc = "dependencyList"
    /\ inflight' = [inflight EXCEPT ![p] =
                      afterDependencyList(@, AllComponents(comps, edges),
                          IF @.op = "createComponent" THEN DepDependsOn
                          ELSE Without(DepDependsOn, @.calls))]
    /\ UNCHANGED <<comps, edges, nextId>>
    /\ UNCHANGED depFixed

\* a createRelationship mutation is answered; the error of a refused one is
\* caught and ends the dependency step
DepLinkReply(p) ==
    /\ inflight[p].pc = "link"
    /\ LET call == inflight[p]
           src  == call.id
           tgt  == call.calls[1].target
           rest == Tail(call.calls)
       IN  IF (\E c \in comps : c.id = src) /\ (\E c \in comps : c.id = tgt)
           THEN /\ edges' = edges \cup {<<src, tgt>>}
                /\ inflight' = [inflight EXCEPT ![p] =
                                  IF rest = <<>>
                                  THEN [DepEnd(@, "ok") EXCEPT !.linked = TRUE,
                                                               !.calls = rest]
                                  ELSE [@ EXCEPT !.linked = TRUE, !.calls = rest]]
           ELSE /\ inflight' = [inflight EXCEPT ![p] =
                                  [DepEnd(@, "ok") EXCEPT !.calls = <<>>]]
                /\ UNCHANGED edges
    /\ UNCHANGED <<comps, nextId>>
    /\ UNCHANGED depFixed

NextDep ==
    \/ \E p \in Callers : DepBegin(p)
    \/ \E p \in Callers : DepGetComponentReply(p)
    \/ \E p \in Callers : DepDependentsReply(p)
    \/ \E p \in Callers : DepLookupReply(p)
    \/ \E p \in Callers : DepValidateReply(p)
    \/ \E p \in Callers : DepDeleteReply(p)
    \/ \E p \in Callers : DepPrimaryReply(p)
    \/ \E p \in Callers : DepCurrentReply(p)
    \/ \E p \in Callers : DepListReply(p)
    \/ \E p \in Callers : DepLinkReply(p)

SpecDep == InitDep /\ [][NextDep]_vars

\* C35: under every interleaving of deleteComponent(X) with a createComponent
\* or updateComponent whose dependsOn names X, X is not deleted while a
\* DEPENDS_ON edge with target X exists, and no DEPENDS_ON edge points to a
\* component that was deleted.
C35_NoDeleteUnderDependents ==
    /\ \A p \in Callers :
          (/\ inflight[p].op = "deleteComponent" /\ inflight[p].outcome = "ok")
          => ~inflight[p].inboundAtDelete
    /\ \A e \in edges : \E c \in comps : c.id = e[2]

----------------------------------------------------------------------------
(* Operations as sequences of awaited remote calls.  One caller runs one
   operation at a time; a step is the reply to the call the operation awaits,
   a result or a failure.  At most one call of an operation fails.  The
   operation completes with the result its service method computes for the
   replies it received.  No other operation runs meanwhile, so the catalog an
   operation meets at its awaits is the catalog it was called on: the call
   record carries, for each position of the failing call, what the method
   then computes (results). *)

MaxLiveOps == 2

LiveSessions == {"liveComponent", "liveMetric", "liveScorecard"}

LiveOps ==
    CASE session = "liveComponent" ->
             {"createComponent", "updateComponent", "deleteComponent", "getComponent"}
      [] session = "liveMetric" ->
             {"createMetric", "updateMetric", "deleteMetric", "getMetric"}
      [] OTHER ->
             {"createScorecard", "updateScorecard", "deleteScorecard", "getScorecard"}

\* what the catalog answers to a delete mutation: no failure, or a failure
\* with a text
LiveDeleteAnswers == {None, Some({}), Some({"in use"})}

\* the requests of an operation: the id it names, its payload, and the one
\* choice the catalog makes in answering its mutation
LiveRequests(op) ==
    CASE op = "createComponent" ->
             {[id |-> Undef, q |-> q, env |-> None] : q \in CreateRequests}
      [] op = "updateComponent" ->
             {[id |-> id, q |-> q, env |-> None] :
                 id \in ComponentIds, q \in UpdateRequests}
      [] op = "deleteComponent" ->
             {[id |-> id, q |-> None, env |-> e] :
                 id \in ComponentIds, e \in LiveDeleteAnswers}
      [] op = "getComponent" ->
             {[id |-> id, q |-> None, env |-> None] : id \in ComponentIds}
      [] op = "createMetric" ->
             {[id |-> Undef, q |-> <<n, ms[1], ms[2]>>, env |-> None] :
                 n \in Names \cup {Undef}, ms \in MetricSpecs}
      [] op = "updateMetric" ->
             {[id |-> id, q |-> q, env |-> None] :
                 id \in MetricIds, q \in MetricUpdateRequests}
      [] op = "deleteMetric" ->
             {[id |-> id, q |-> None, env |-> e] :
                 id \in MetricIds, e \in LiveDeleteAnswers}
      [] op = "getMetric" ->
             {[id |-> id, q |-> None, env |-> None] : id \in MetricIds}
      [] op = "createScorecard" ->
             {[id |-> Undef, q |-> q, env |-> None] : q \in ScorecardRequests}
      [] op = "updateScorecard" ->
             {[id |-> id, q |-> q, env |-> Some(lenient)] :
                 id \in ScorecardIds, q \in ScorecardUpdateRequests,
                 lenient \in BOOLEAN}
      [] op = "deleteScorecard" ->
             {[id |-> id, q |-> None, env |-> e] :
                 id \in ScorecardIds, e \in LiveDeleteAnswers}
      [] OTHER ->
             {[id |-> id, q |-> None, env |-> None] : id \in ScorecardIds}

\* the result of the service method when its failAt-th remote call fails
\* (none when failAt = 0), on the catalog as it is
Run(op, req, failAt) ==
    LET kept(l) == PageResult(comps, edges,
                       CatResult(metrics, scorecards, metricsCache,
                                 scorecardListCache, FALSE, l))
        comp(r) == PageResult(r.comps, r.edges,
                       CatResult(metrics, scorecards, metricsCache,
                                 scorecardListCache, r.created, r.last))
        cat(r)  == PageResult(comps, edges, r)
    IN  CASE op = "createComponent" ->
                 comp(createComponent(comps, edges,
                          IdOf("component", nextId["component"] + 1),
                          req.q.specName, req.q.metaName, req.q.typeId,
                          req.q.dependsOn, failAt))
          [] op = "updateComponent" ->
                 comp(updateComponent(comps, edges, req.id, req.q.name,
                          req.q.description, req.q.typeId, req.q.dependsOn, failAt))
          [] op = "deleteComponent" ->
                 comp(deleteComponent(comps, edges, req.id, failAt, req.env))
          [] op = "getComponent" ->
                 kept(getComponent(comps, edges, req.id, failAt))
          [] op = "createMetric" ->
                 cat(createMetric(metrics, scorecards, metricsCache, scorecardListCache,
                         IdOf("metric", nextId["metric"] + 1),
                         req.q[1], req.q[2], req.q[3], failAt))
          [] op = "updateMetric" ->
                 cat(updateMetric(metrics, scorecards, metricsCache, scorecardListCache,
                         req.id, req.q[1], req.q[2], req.q[3], req.q[4], req.q[5],
                         failAt))
          [] op = "deleteMetric" ->
                 cat(deleteMetric(metrics, scorecards, metricsCache, scorecardListCache,
                         req.id, req.env, failAt))
          [] op = "getMetric" ->
                 kept(getMetric(metrics, req.id, failAt))
          [] op = "createScorecard" ->
                 cat(createScorecard(metrics, scorecards, metricsCache,
                         scorecardListCache,
                         IdOf("scorecard", nextId["scorecard"] + 1),
                         req.q.metaName, req.q.specName, req.q.criteria, failAt))
          [] op = "updateScorecard" ->
                 cat(updateScorecard(metrics, scorecards, metricsCache,
                         scorecardListCache, req.id, req.q.metaName, req.q.specName,
                         req.q.criteria, req.env[1], failAt))
          [] op = "deleteScorecard" ->
                 cat(deleteScorecard(metrics, scorecards, metricsCache,
                         scorecardListCache, req.id, failAt, req.env))
          [] OTHER ->
                 cat(getScorecard(metrics, scorecards, metricsCache,
                         scorecardListCache, req.id, failAt))

\* no operation awaits more remote calls than updateComponent with MaxIds
\* dependencies
LiveCallLimit == 4 + (2 * MaxIds)

\* the outcomes of the method, by the position of the failing call
RunAll(op, req) == [f \in 0..LiveCallLimit |-> Run(op, req, f)]

\* the remote calls the operation awaits when none fails: a call is awaited
\* exactly if its failure shows in the outcome
RemoteCalls(results) ==
    LET made == {k \in 1..LiveCallLimit : results[k].last # results[0].last}
    IN  IF made = {} THEN 0 ELSE CHOOSE k \in made : \A j \in made : j <= k

\* the catch that swallows the failure of call f and lets the operation go
\* on to its next await: checkDependencies inside deleteComponent.  Every
\* other failure ends the operation or the step it is the last await of.
ContinuesAfter(op, f) == op = "deleteComponent" /\ f = 2

IdleLiveCall ==
    [pc |-> "idle", op |-> "none", req |-> None, k |-> 0, failedAt |-> 0, calls |-> 0,
     results |-> <<>>]

\* the reply to the awaited call arrived, as a result or as a failure
answered_RestartOnFailure(call, fails) ==
    IF fails THEN [call EXCEPT !.k = 0] ELSE [call EXCEPT !.k = @ + 1]

answered(call, fails) ==
    [call EXCEPT !.k = @ + 1, !.failedAt = IF fails THEN call.k + 1 ELSE @]

\* the operation has no await left
Completed(call) ==
    IF call.failedAt = 0 \/ ContinuesAfter(call.op, call.failedAt)
    THEN call.k >= call.calls
    ELSE call.k >= call.failedAt

InitLive ==
    /\ session \in LiveSessions
    /\ comps = {} /\ edges = {} /\ metrics = {} /\ scorecards = {}
    /\ nextId = [k \in Kinds |-> 0]
    /\ metricsCache = None /\ scorecardListCache = None
    /\ last = NoOp
    /\ hist = [deleted |-> [k \in Kinds |-> {}], ops |-> 0]
    /\ inflight = IdleLiveCall
    /\ IdleDiff
    /\ IdleLog

\* the operation returns or throws: its effects and its outcome
LiveReturn(call) ==
    \E r \in {call.results[call.failedAt]} :
        /\ comps' = r.comps
        /\ edges' = r.edges
        /\ metrics' = r.metrics
        /\ scorecards' = r.scorecards
        /\ metricsCache' = r.mc
        /\ scorecardListCache' = r.sc
        /\ nextId' = IF r.created
                     THEN [nextId EXCEPT ![r.last.kind] = @ + 1] ELSE nextId
        /\ last' = r.last
        /\ hist' = Counted(hist)
        /\ inflight' = [IdleLiveCall EXCEPT !.pc = "done", !.op = call.op, !.k = call.k]

LiveAwait(call) ==
    /\ inflight' = call
    /\ UNCHANGED <<comps, edges, metrics, scorecards, metricsCache,
                   scorecardListCache, nextId, last, hist>>

\* an operation is called and runs to its first await, or to its end when a
\* check rejects the request before any remote call
LiveBegin ==
    /\ session \in LiveSessions
    /\ inflight.pc \in {"idle", "done"}
    /\ hist.ops < MaxLiveOps
    /\ \E op \in LiveOps : \E req \in LiveRequests(op) :
          \E results \in {RunAll(op, req)} :
             /\ results[0].created => nextId[results[0].last.kind] < MaxIds
             /\ \E calls \in {RemoteCalls(results)} :
                \E call \in {[IdleLiveCall EXCEPT
                                  !.pc = "await", !.op = op, !.req = req,
                                  !.calls = calls,
                                  !.results = [f \in 0..calls |-> results[f]]]} :
                   IF Completed(call) THEN LiveReturn(call) ELSE LiveAwait(call)
    /\ UNCHANGED <<session, diffVars, logVars>>

\* the awaited remote call returns a result
LiveReplyResult ==
    /\ inflight.pc = "await"
    /\ \E call \in {answered(inflight, FALSE)} :
          IF Completed(call) THEN LiveReturn(call) ELSE LiveAwait(call)
    /\ UNCHANGED <<session, diffVars, logVars>>

\* the awaited remote call returns a failure
LiveReplyFailure ==
    /\ inflight.pc = "await"
    /\ inflight.failedAt = 0
    /\ \E call \in {answered(inflight, TRUE)} :
          IF Completed(call) THEN LiveReturn(call) ELSE LiveAwait(call)
    /\ UNCHANGED <<session, diffVars, logVars>>

NextLive == LiveBegin \/ LiveReplyResult \/ LiveReplyFailure

\* every remote call eventually returns a result or a failure
SpecLive ==
    InitLive /\ [][NextLive]_vars /\ WF_vars(LiveReplyResult \/ LiveReplyFailure)

Outcomes == {"ok", "BadRequest", "NotFound", "Conflict", "Error"}

\* C33: if every remote call eventually returns a result or a failure, every
\* create, update, delete and read operation that was called eventually
\* completes, with a success value or with one error.
C33_OperationsTerminate ==
    (inflight.pc = "await") ~> (inflight.pc = "done" /\ last.outcome \in Outcomes)

\* an updateComponent that awaited relationship calls one after the other
C33_Witness ==
    /\ session = "liveComponent"
    /\ inflight.pc = "done" /\ inflight.op = "updateComponent"
    /\ inflight.k >= 5
    /\ "createRelationship" \in Range(last.mutations)

====
